----------------------------- MODULE VideoWorker -----------------------------
(***************************************************************************)
(* A job of the vehicle counting application (apps/vehicle_counting): the  *)
(* threads of its worker (worker/online_worker.py, worker/offline_worker.py*)
(* and worker/worker.py) and the status of the job, which the worker and   *)
(* the API (api/app.py) both write.                                        *)
(*                                                                         *)
(* The worker of a video file ("online") has a decoding and a main thread, *)
(* the one of a playlist ("offline") a downloading thread as well.  They   *)
(* share lists and flags without locks: every read of a shared variable is *)
(* a step of its own where another thread writes it.  A frame is its       *)
(* number in the stream; what is seen and counted in it, and the reports   *)
(* of the counts, are left out.  The unit of time is the time of a frame.  *)
(***************************************************************************)
EXTENDS Integers, Sequences, SequencesExt, FiniteSetsExt

CONSTANTS
  Modes,          \* the kinds of streams, "online" and "offline"
  Window,         \* WINDOW_LENGTH
  Skip,           \* skip_frame
  Backlog,        \* 5 * NUM_FRAMES_PER_SEC
  Duration,       \* job_duration
  Remember,       \* chunks last_downloaded holds: 11 in the code
  Listed,         \* chunks a playlist lists
  ChunkFrames,    \* frames of a chunk
  MaxFrames,      \* bound on the frames of a video
  MaxChunks,      \* bound on the chunks of a stream
  MayStop         \* the streams whose job the user may terminate

(* get_batch takes the skipped frames into account.                        *)
Batch == Window \div (1 + Skip)

(* With a batch of no frames, or one the decoder never decodes ahead, the  *)
(* main thread waits for ever; with a longer playlist the downloading      *)
(* thread forgets chunks that are still listed.                            *)
ASSUME WorkerAssumption ==
    /\ {Window, Skip, Backlog, Duration, Remember, Listed, ChunkFrames, MaxFrames, MaxChunks} \subseteq Nat
    /\ Modes \subseteq {"online", "offline"}
    /\ Batch \in 1 .. Backlog + 1
    /\ Listed \in 1 .. Remember
    /\ MayStop \subseteq Modes

VARIABLES
  mode, total_frames,                      \* of the stream
  video_frames, video_frame_timestamps,
  video_ended, job_completed, decoder_stopped, to_exit_threads,
  now,                                     \* the time since the start
  download, listed, chunk_names, last_downloaded, downloaded_videos,
  decode, cap, frame_idx, video_ts,        \* cap: the frames left to read
  main, batch, is_end_of_video, last_frame_ts,
  seen,                                    \* the last frame processed
  status, job, stop                        \* job: whether it exists in the cluster

buffers == <<video_frames, video_frame_timestamps>>
flags == <<video_ended, job_completed, decoder_stopped, to_exit_threads>>
downloading == <<download, listed, chunk_names, last_downloaded>>
decoding == <<decode, cap, frame_idx, video_ts>>
tracking == <<main, batch, is_end_of_video, last_frame_ts, seen>>
managing == <<status, job, stop>>
vars == <<mode, total_frames, buffers, flags, now, downloading, downloaded_videos,
          decoding, tracking, managing>>

Online == mode = "online"
Final == {"COMPLETED", "FAILED", "STOPPED"}
MaxNow == (11 * Duration) \div 10 + 1        \* when downloading takes too long

Nothing == [frames |-> <<>>, stamps |-> <<>>]

(* submit_video has inserted the job and created it in the cluster.        *)
Init ==
    /\ mode \in Modes
    /\ total_frames \in IF Online THEN 0 .. MaxFrames ELSE {0}
    /\ video_frames = <<>> /\ video_frame_timestamps = <<>>
    /\ video_ended = FALSE /\ job_completed = FALSE /\ decoder_stopped = FALSE
    /\ to_exit_threads = FALSE
    /\ now = 0
    /\ download = "idle" /\ listed = 0 /\ chunk_names = <<>>
    /\ last_downloaded = <<>>
    /\ downloaded_videos = <<>>
    /\ decode = "idle" /\ cap = <<>> /\ frame_idx = 0 /\ video_ts = 0
    /\ main = "created" /\ batch = Nothing /\ is_end_of_video = FALSE
    /\ last_frame_ts = -1 /\ seen = 0
    /\ status = "PENDING" /\ job = TRUE
    /\ stop = [c \in {"user", "worker"} |-> "none"]

-----------------------------------------------------------------------------
(* The downloading thread, of the offline worker.                          *)

(* A round starts: it is too late or there is no space left, the playlist  *)
(* cannot be read, or it can: it then lists the latest chunks.             *)
DownloadRound ==
    /\ download = "loop"
    /\ \/ /\ video_ended \/ job_completed \/ to_exit_threads
          /\ download' = "stopped"
          /\ UNCHANGED <<video_ended, listed, chunk_names>>
       \/ /\ ~ (video_ended \/ job_completed \/ to_exit_threads)
          /\ \/ /\ video_ended' = TRUE
                /\ download' = "stopped"
                /\ UNCHANGED <<listed, chunk_names>>
             \/ /\ 10 * now <= 11 * Duration
                /\ \E hi \in listed .. MaxChunks :
                      /\ listed' = hi
                      /\ chunk_names' = [i \in 1 .. Min({hi, Listed}) |-> hi - Min({hi, Listed}) + i]
                /\ download' = "chunks"
                /\ UNCHANGED video_ended
    /\ UNCHANGED <<job_completed, decoder_stopped, to_exit_threads, last_downloaded, downloaded_videos>>

(* Mutant: a chunk is forgotten one too early.                             *)
ForgottenEarly(chunks, c) ==
    Append(IF Len(chunks) > Remember - 2 THEN Tail(chunks) ELSE chunks, c)
Remembered(chunks, c) ==
    Append(IF Len(chunks) > Remember - 1 THEN Tail(chunks) ELSE chunks, c)

(* A chunk is skipped, or downloaded and remembered, the latter also if it *)
(* cannot be downloaded.  One whose name has no number ends the thread.    *)
DownloadChunk ==
    /\ download = "chunks"
    /\ \/ /\ chunk_names = <<>>
          /\ download' = "loop"
          /\ UNCHANGED <<chunk_names, last_downloaded, downloaded_videos>>
       \/ /\ chunk_names # <<>>
          /\ download' = "died"
          /\ UNCHANGED <<chunk_names, last_downloaded, downloaded_videos>>
       \/ /\ chunk_names # <<>>
          /\ chunk_names' = Tail(chunk_names)
          /\ IF Contains(last_downloaded, Head(chunk_names))
             THEN UNCHANGED <<last_downloaded, downloaded_videos>>
             ELSE /\ last_downloaded' = Remembered(last_downloaded, Head(chunk_names))
                  /\ downloaded_videos' \in
                        {downloaded_videos,
                         Append(downloaded_videos, [chunk |-> Head(chunk_names), ts |-> now])}
          /\ UNCHANGED download
    /\ UNCHANGED <<flags, listed>>

Download ==
    /\ DownloadRound \/ DownloadChunk
    /\ UNCHANGED <<mode, total_frames, buffers, now, decoding, tracking, managing>>

-----------------------------------------------------------------------------
(* The decoding thread.                                                    *)

Ahead == Len(video_frames) > Backlog
Kept == frame_idx % (Skip + 1) = 0
FramesOf(chunk) == [i \in 1 .. ChunkFrames |-> (chunk - 1) * ChunkFrames + i]

(* The two appends for a frame that is kept: its time, then the frame.     *)
(* Mutant: the other way round.                                            *)
FrameFirst(n, frame, stamp) ==
    IF n = 1
    THEN video_frames' = Append(video_frames, frame) /\ UNCHANGED video_frame_timestamps
    ELSE video_frame_timestamps' = Append(video_frame_timestamps, stamp) /\ UNCHANGED video_frames
AppendStep(n, frame, stamp) ==
    IF n = 1
    THEN video_frame_timestamps' = Append(video_frame_timestamps, stamp) /\ UNCHANGED video_frames
    ELSE video_frames' = Append(video_frames, frame) /\ UNCHANGED video_frame_timestamps

(* A frame is read: it is kept, which takes another step, or skipped.      *)
ReadFrame(frame, stamp, again) ==
    IF Kept
    THEN /\ AppendStep(1, frame, stamp)
         /\ decode' = "frame"
         /\ UNCHANGED <<frame_idx, cap>>
    ELSE /\ decode' = again
         /\ frame_idx' = frame_idx + 1
         /\ cap' = IF Online THEN cap ELSE Tail(cap)
         /\ UNCHANGED buffers

(* The video ends with its last frame, or before it.                       *)
OnlineRead ==
    /\ Online /\ decode = "loop" /\ ~ Ahead
    /\ \/ /\ frame_idx < IF total_frames > 0 THEN total_frames ELSE MaxFrames
          /\ ReadFrame(frame_idx + 1, frame_idx, "loop")
          /\ UNCHANGED video_ended
       \/ /\ video_ended' = TRUE
          /\ decode' = "ended"
          /\ UNCHANGED <<frame_idx, cap, buffers>>
    /\ UNCHANGED <<video_ts, job_completed, decoder_stopped, to_exit_threads, downloaded_videos>>

OnlineEnd ==
    /\ decode = "ended"
    /\ job_completed' = (total_frames > 0 /\ 100 * frame_idx >= 99 * total_frames)
    /\ decode' = "stopped"
    /\ UNCHANGED <<cap, frame_idx, video_ts, buffers, video_ended, decoder_stopped,
                   to_exit_threads, downloaded_videos>>

(* A chunk without frames is like one that could not be downloaded.        *)
TakeChunk ==
    /\ downloaded_videos # <<>> /\ ~ Ahead
    /\ downloaded_videos' = Tail(downloaded_videos)
    /\ video_ts' = Head(downloaded_videos).ts
    /\ cap' = FramesOf(Head(downloaded_videos).chunk)
    /\ decode' = "read"

OfflineLoop ==
    /\ ~ Online /\ decode = "loop"
    /\ \/ /\ to_exit_threads
          /\ decode' = "stopping"
          /\ UNCHANGED <<cap, video_ts, job_completed, downloaded_videos>>
       \/ /\ ~ to_exit_threads /\ video_ts >= Duration
          /\ job_completed' = TRUE
          /\ decode' = "stopping"
          /\ UNCHANGED <<cap, video_ts, downloaded_videos>>
       \/ /\ ~ to_exit_threads /\ video_ts < Duration /\ downloaded_videos = <<>>
          /\ decode' = "none"
          /\ UNCHANGED <<cap, video_ts, job_completed, downloaded_videos>>
       \/ /\ ~ to_exit_threads /\ video_ts < Duration
          /\ TakeChunk
          /\ UNCHANGED job_completed
    /\ UNCHANGED <<frame_idx, buffers, video_ended, decoder_stopped, to_exit_threads>>

(* Whether there are no chunks to wait for.  Mutant: the job's completion  *)
(* is waited for.                                                          *)
WaitsForJob == job_completed
NoMoreChunks == video_ended

OfflineNone ==
    /\ decode = "none"
    /\ decode' = IF NoMoreChunks THEN "stopping" ELSE "again"
    /\ UNCHANGED <<cap, frame_idx, video_ts, buffers, flags, downloaded_videos>>

(* The list is looked at once more: a chunk that has come since is taken   *)
(* without another look at the flags.                                      *)
OfflineAgain ==
    /\ ~ Online /\ decode = "again"
    /\ \/ TakeChunk
       \/ /\ downloaded_videos = <<>> \/ Ahead
          /\ decode' = "loop"
          /\ UNCHANGED <<cap, video_ts, downloaded_videos>>
    /\ UNCHANGED <<frame_idx, buffers, flags>>

OfflineRead ==
    /\ decode = "read"
    /\ IF cap = <<>>
       THEN decode' = "loop" /\ UNCHANGED <<cap, frame_idx, video_ts, buffers>>
       ELSE /\ video_ts' = video_ts + 1
            /\ ReadFrame(Head(cap), video_ts + 1, "read")
    /\ UNCHANGED <<flags, downloaded_videos>>

SecondAppend ==
    /\ decode = "frame"
    /\ IF Online
       THEN AppendStep(2, frame_idx + 1, frame_idx) /\ UNCHANGED cap
       ELSE AppendStep(2, Head(cap), video_ts) /\ cap' = Tail(cap)
    /\ frame_idx' = frame_idx + 1
    /\ decode' = IF Online THEN "loop" ELSE "read"
    /\ UNCHANGED <<video_ts, flags, downloaded_videos>>

OfflineEnd ==
    /\ decode = "stopping"
    /\ decoder_stopped' = TRUE
    /\ decode' = "stopped"
    /\ UNCHANGED <<cap, frame_idx, video_ts, buffers, video_ended, job_completed,
                   to_exit_threads, downloaded_videos>>

Decode ==
    /\ \/ OnlineRead \/ OnlineEnd \/ OfflineLoop \/ OfflineNone \/ OfflineAgain
       \/ OfflineRead \/ SecondAppend \/ OfflineEnd
    /\ UNCHANGED <<mode, total_frames, now, downloading, tracking, managing>>

-----------------------------------------------------------------------------
(* The main thread.                                                        *)

(* The first n frames are taken off both lists.                            *)
Pop(n) ==
    /\ batch' = [frames |-> SubSeq(video_frames, 1, n),
                 stamps |-> SubSeq(video_frame_timestamps, 1, n)]
    /\ video_frames' = SubSeq(video_frames, n + 1, Len(video_frames))
    /\ video_frame_timestamps' = SubSeq(video_frame_timestamps, n + 1, Len(video_frame_timestamps))

(* get_batch, one step for each time it looks at the list or at the flag.  *)
GetFull ==
    /\ main = "batch"
    /\ IF Len(video_frames) >= Batch
       THEN Pop(Batch) /\ main' = "completed"
       ELSE main' = "short" /\ batch' = Nothing /\ UNCHANGED buffers
    /\ is_end_of_video' = FALSE

GetShort ==
    /\ main = "short"
    /\ main' = IF Len(video_frames) < Batch THEN "ended?" ELSE "none"
    /\ UNCHANGED <<batch, buffers, is_end_of_video>>

GetRest ==
    /\ main = "ended?"
    /\ IF video_ended
       THEN Pop(Len(video_frames)) /\ main' = "completed" /\ is_end_of_video' = TRUE
       ELSE main' = "none" /\ UNCHANGED <<batch, buffers, is_end_of_video>>

GetNone ==
    /\ main = "none"
    /\ main' = "completed"
    /\ is_end_of_video' = video_ended
    /\ UNCHANGED <<batch, buffers>>

GetBatch ==
    /\ GetFull \/ GetShort \/ GetRest \/ GetNone
    /\ UNCHANGED <<flags, last_frame_ts, seen>>

(* Whether to stop.  The offline worker first looks whether the job is     *)
(* completed.  The last report of the counts may raise, before the threads *)
(* are told to exit, and so may the log, after it.                         *)
Completed ==
    /\ main = "completed"
    /\ IF ~ Online /\ (last_frame_ts >= Duration \/ job_completed)
       THEN /\ job_completed' = TRUE
            /\ \/ to_exit_threads' = TRUE /\ main' \in {"ended", "raised"}
               \/ main' = "raised" /\ UNCHANGED to_exit_threads
       ELSE main' = "stopped" /\ UNCHANGED <<job_completed, to_exit_threads>>
    /\ UNCHANGED <<video_ended, decoder_stopped>>

Stopped ==
    /\ main = "stopped"
    /\ IF IF Online THEN is_end_of_video ELSE decoder_stopped /\ batch.frames = <<>>
       THEN \/ /\ to_exit_threads' = (to_exit_threads \/ ~ Online)
               /\ main' \in IF Online THEN {"ended"} ELSE {"ended", "raised"}
            \/ /\ last_frame_ts > 0
               /\ main' = "raised"
               /\ UNCHANGED to_exit_threads
       ELSE /\ main' = IF batch.stamps = <<>> THEN "batch" ELSE "process"
            /\ UNCHANGED to_exit_threads
    /\ UNCHANGED <<video_ended, job_completed, decoder_stopped>>

Judge ==
    /\ Completed \/ Stopped
    /\ UNCHANGED <<buffers, batch, is_end_of_video, last_frame_ts, seen>>

(* The time of the last window: that of its last frame, or of the first    *)
(* one that has any.                                                       *)
FrameTime(stamps) ==
    LET timed == {i \in DOMAIN stamps : stamps[i] > 0}
    IN  IF Last(stamps) > 0 THEN Last(stamps)
        ELSE IF timed = {} THEN last_frame_ts ELSE stamps[Min(timed)]

(* Vehicles are detected in the first frame of the window, tracked in the  *)
(* others and counted, and the counts are reported.                        *)
Process ==
    /\ main = "process"
    /\ last_frame_ts' = FrameTime(batch.stamps)
    /\ seen' = Last(batch.frames)
    /\ batch' = Nothing
    /\ main' = "batch"
    /\ UNCHANGED <<buffers, flags, is_end_of_video>>

(* Inference fails for good, which stops the threads of the offline        *)
(* worker, or the counts or the log cannot be stored, which does not.      *)
ProcessRaises ==
    /\ main = "process"
    /\ to_exit_threads' \in {to_exit_threads, ~ Online}
    /\ last_frame_ts' = FrameTime(batch.stamps)
    /\ main' = "raised"
    /\ UNCHANGED <<buffers, video_ended, job_completed, decoder_stopped, batch,
                   is_end_of_video, seen>>

RunTracking ==
    /\ GetBatch \/ Judge \/ Process \/ ProcessRaises
    /\ UNCHANGED <<mode, total_frames, now, downloading, downloaded_videos, decoding, managing>>

-----------------------------------------------------------------------------
(* main of worker.py.                                                      *)

SetRunning ==
    /\ main = "created"
    /\ \/ status' = "RUNNING" /\ main' = "open"
       \/ main' = "raised" /\ UNCHANGED status
    /\ UNCHANGED <<decode, download, stop>>

(* The stream is opened, and the threads start, unless it is none.  The    *)
(* offline worker then writes its log, which may raise.                    *)
Open ==
    /\ main = "open"
    /\ \/ /\ main' \in IF Online THEN {"batch"} ELSE {"batch", "raised"}
          /\ decode' = "loop"
          /\ download' = IF Online THEN download ELSE "loop"
       \/ main' = "raised" /\ UNCHANGED <<decode, download>>
    /\ UNCHANGED <<status, stop>>

Conclude ==
    /\ main = "ended"
    /\ \/ status' = (IF job_completed THEN "COMPLETED" ELSE "FAILED") /\ main' = "post"
       \/ main' = "raised" /\ UNCHANGED status
    /\ UNCHANGED <<decode, download, stop>>

(* The failure is stored, unless sixty attempts fail.                      *)
Fail ==
    /\ main = "raised"
    /\ \/ status' = "FAILED" /\ main' = "post"
       \/ main' = "unstored" /\ UNCHANGED status
    /\ UNCHANGED <<decode, download, stop>>

(* Logs are uploaded, where an exception ends the process, and the API is  *)
(* told.                                                                   *)
Post ==
    /\ main \in {"post", "unstored"}
    /\ \/ main' = "exited" /\ stop' = [stop EXCEPT !.worker = "called"]
       \/ main' = (IF main = "post" THEN "exited" ELSE "lost") /\ UNCHANGED stop
    /\ UNCHANGED <<decode, download, status>>

WorkerMain ==
    /\ SetRunning \/ Open \/ Conclude \/ Fail \/ Post
    /\ UNCHANGED <<mode, total_frames, buffers, flags, now, listed, chunk_names, last_downloaded,
                   downloaded_videos, cap, frame_idx, video_ts, batch, is_end_of_video,
                   last_frame_ts, seen, job>>

-----------------------------------------------------------------------------
(* The API.                                                                *)

worker == <<mode, total_frames, buffers, flags, now, downloading, downloaded_videos, decoding, tracking>>

(* Whether the status that terminate_job reads is to be changed.           *)
(* Mutant: it always is.                                                   *)
MarksAlways(s) == TRUE
Marks(s) == s \notin Final

(* terminate_job reads the status, deletes the job, then acts on what it   *)
(* read.                                                                   *)
ReadStatus(c) ==
    /\ stop' = [stop EXCEPT ![c] = IF Marks(status) THEN "mark" ELSE "keep"]
    /\ UNCHANGED <<worker, status, job>>

UserStops == mode \in MayStop /\ stop.user = "none" /\ ReadStatus("user")

TerminateJob(c) ==
    \/ stop[c] = "called" /\ ReadStatus(c)
    \/ /\ stop[c] \in {"mark", "keep"}
       /\ job' = FALSE
       /\ stop' = [stop EXCEPT ![c] = IF @ = "mark" THEN "update" ELSE "done"]
       /\ UNCHANGED <<worker, status>>
    \/ /\ stop[c] = "update"
       /\ status' = "STOPPED"
       /\ stop' = [stop EXCEPT ![c] = "done"]
       /\ UNCHANGED <<worker, job>>

(* The worker of a job that was deleted is killed, some time later, and    *)
(* its memory is gone.                                                     *)
Kill ==
    /\ ~ job
    /\ main # "killed"
    /\ video_frames' = <<>> /\ video_frame_timestamps' = <<>>
    /\ video_ended' = FALSE /\ job_completed' = FALSE
    /\ decoder_stopped' = FALSE /\ to_exit_threads' = FALSE
    /\ now' = 0
    /\ download' = "killed" /\ listed' = 0 /\ chunk_names' = <<>>
    /\ last_downloaded' = <<>>
    /\ downloaded_videos' = <<>>
    /\ decode' = "killed" /\ cap' = <<>> /\ frame_idx' = 0 /\ video_ts' = 0
    /\ main' = "killed" /\ batch' = Nothing /\ is_end_of_video' = FALSE
    /\ last_frame_ts' = -1 /\ seen' = 0
    /\ UNCHANGED <<mode, total_frames, managing>>

Tick ==
    /\ ~ Online /\ main # "killed"
    /\ now < MaxNow
    /\ now' = now + 1
    /\ UNCHANGED <<mode, total_frames, buffers, flags, downloading, downloaded_videos,
                   decoding, tracking, managing>>

Next ==
    \/ Download \/ Decode \/ RunTracking \/ WorkerMain
    \/ UserStops \/ (\E c \in DOMAIN stop : TerminateJob(c)) \/ Kill
    \/ Tick

Spec == Init /\ [][Next]_vars

(* Threads run, requests are handled, pods of deleted jobs are killed and  *)
(* time passes.                                                            *)
Fairness ==
    /\ WF_vars(Download) /\ WF_vars(Decode) /\ WF_vars(RunTracking) /\ WF_vars(WorkerMain)
    /\ \A c \in {"user", "worker"} : WF_vars(TerminateJob(c))
    /\ WF_vars(Kill)
    /\ WF_vars(Tick)

FairSpec == Spec /\ Fairness

-----------------------------------------------------------------------------
(* Properties.                                                             *)

(* The lists of the frames and of their times, filled by one thread and    *)
(* emptied by another without a lock, never differ by more than the frame  *)
(* being added: no frame is popped without its time, or with another's.    *)
(* What the decoder is ahead of the main thread stays bounded.             *)
BuffersSound ==
    /\ Len(video_frame_timestamps) - Len(video_frames) = IF decode = "frame" THEN 1 ELSE 0
    /\ Len(batch.frames) = Len(batch.stamps)
    /\ Len(video_frames) <= Backlog + Max({1, ChunkFrames})

(* Every frame is processed at most once and in the order of the stream,   *)
(* although playlists overlap, chunks fail and threads hand frames over    *)
(* (download_video_thread remembers the last chunks).  A vehicle in a      *)
(* frame that comes twice would be counted twice.                          *)
FramesInOrder ==
    LET frames == <<seen>> \o batch.frames \o video_frames
    IN  \A i \in 1 .. Len(frames) - 1 : frames[i] < frames[i + 1]

(* Unless the user stops the job, the status it ended with is not changed, *)
(* by the worker's own call of terminate_job either.                       *)
OutcomeKept == [][stop.user = "none" /\ status \in Final => status' = status]_vars

(* A job comes to an end by itself, however its threads interleave, unless *)
(* the downloading thread has died, the user stops the job, or neither the *)
(* status nor the logs could be stored.                                    *)
JobSettles ==
    status \in {"PENDING", "RUNNING"} ~>
        (status \in Final \/ download = "died" \/ main = "lost" \/ stop.user # "none")
=============================================================================
