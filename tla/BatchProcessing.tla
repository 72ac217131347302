--------------------------- MODULE BatchProcessing ---------------------------
(***************************************************************************)
(* The way of image batches from the camera through the System V message   *)
(* queue to the ring buffer: camera_control.c, get_message_from_queue,     *)
(* process_one, process_all and process of dipp_process.c, and upload of   *)
(* vmem_upload_local.c.  A message carries only the id of the shared       *)
(* memory segment with the images; whoever holds the message is to remove  *)
(* the segment.  Queue, segments and ring buffer outlive a crash of DIPP.  *)
(*                                                                         *)
(* The execution of the pipeline (PipelineExecution) appears here by its   *)
(* outcome and by what its modules may do to the segment.                  *)
(***************************************************************************)
EXTENDS DippError, Integers, Sequences

CONSTANTS
  Batches,        \* the batches, one camera process each
  NumImages,      \* num_images, by batch
  NoBatch,
  Modes,          \* run modes in use, as [all, wait] pairs
  Faults,         \* "lose": a module dies with the segment replaced;
                  \* "attach", "remove": shmat, shmctl fail; "camera": a
                  \* camera fails before its message is sent
  QueueCapacity,  \* messages that msgsnd puts into the queue before it blocks
  MaxSegments,    \* bound: segments ever created
  MaxCrashes      \* bound: crashes of DIPP from outside

ASSUME BatchAssumption ==
  /\ NumImages \in [Batches -> Nat]
  /\ NoBatch \notin Batches
  /\ Modes \subseteq [all : BOOLEAN, wait : BOOLEAN]
  /\ Faults \subseteq {"lose", "attach", "remove", "camera"}
  /\ QueueCapacity \in Nat
  /\ MaxSegments \in Nat
  /\ MaxCrashes \in Nat

VARIABLES
  camera,          \* where each camera process is, "gone": it has failed
  shmid,           \* the segment it has created, 0: none
  msgq,            \* the queue exists
  queue,           \* the messages in it
  segments,        \* the batch whose images each segment holds, NoBatch: removed
  pc,              \* where the processing thread is
  mode,            \* process_one or process_all, do_wait
  input_batch,     \* the ImageBatch received: its images and its shmid
  pipeline_result, \* what load_pipeline_and_execute returned
  shmaddr,         \* the segment attached, 0: shmat has failed
  image_index,     \* loop index of upload
  vmem_images,     \* the ring buffer, as the sequence of images written to it
  log_status,      \* the last error code, without its suffix
  sent,            \* history: the batches in the order of their messages
  abandoned,       \* history: segments nobody will remove any more
  crashes          \* history: how often DIPP has crashed

cameraVars == <<camera, shmid, msgq, sent>>
threadVars == <<pc, mode, input_batch, pipeline_result, shmaddr, image_index>>
historyVars == <<abandoned, crashes>>
vars == <<cameraVars, threadVars, historyVars, queue, segments, vmem_images, log_status>>

Nothing == [batch |-> NoBatch, shmid |-> 0]

Live(s) == s \in DOMAIN segments /\ segments[s] # NoBatch

\* shmget: segment ids are not used again.
Created == Len(segments) + 1

Init ==
  /\ camera = [b \in Batches |-> "off"] /\ shmid = [b \in Batches |-> 0]
  /\ msgq = FALSE /\ queue = <<>> /\ sent = <<>>
  /\ segments = <<>>
  /\ pc = "idle" /\ mode = [all |-> FALSE, wait |-> FALSE]
  /\ input_batch = Nothing /\ pipeline_result = "none"
  /\ shmaddr = 0 /\ image_index = 0
  /\ vmem_images = <<>> /\ log_status = 0
  /\ abandoned = {} /\ crashes = 0

-----------------------------------------------------------------------------
(* The cameras.                                                            *)

\* Mutant: every camera asks for the same key and gets the same segment.
CameraFill_OneKey(b) ==
  /\ camera[b] = "off" /\ NumImages[b] > 0 /\ Len(segments) < MaxSegments
  /\ camera' = [camera EXCEPT ![b] = "filled"]
  /\ shmid' = [shmid EXCEPT ![b] = 1]
  /\ segments' = IF segments = <<>> THEN <<b>> ELSE [segments EXCEPT ![1] = b]
  /\ UNCHANGED <<msgq, sent, threadVars, historyVars, queue, vmem_images, log_status>>

\* shmget, shmat, and the loop that copies the images.
CameraFill(b) ==
  /\ camera[b] = "off" /\ NumImages[b] > 0 /\ Len(segments) < MaxSegments
  /\ camera' = [camera EXCEPT ![b] = "filled"]
  /\ shmid' = [shmid EXCEPT ![b] = Created]
  /\ segments' = Append(segments, b)
  /\ UNCHANGED <<msgq, sent, threadVars, historyVars, queue, vmem_images, log_status>>

\* shmget refuses a segment of no bytes, and no image is copied to where shmat
\* has failed: the camera goes on with the shmid -1, here 0.
CameraEmpty(b) ==
  /\ camera[b] = "off" /\ NumImages[b] = 0
  /\ camera' = [camera EXCEPT ![b] = "filled"]
  /\ UNCHANGED <<shmid, msgq, sent, threadVars, historyVars, queue, segments, vmem_images, log_status>>

\* shmget fails, and copying the first image kills the camera.
CameraNoSegment(b) ==
  /\ "camera" \in Faults
  /\ camera[b] = "off" /\ NumImages[b] > 0
  /\ camera' = [camera EXCEPT ![b] = "gone"]
  /\ UNCHANGED <<shmid, msgq, sent, threadVars, historyVars, queue, segments, vmem_images, log_status>>

\* The camera is killed with a segment of its own: shmat has failed, or there
\* is no file to read.
CameraDies(b) ==
  /\ "camera" \in Faults
  /\ camera[b] = "off" /\ NumImages[b] > 0 /\ Len(segments) < MaxSegments
  /\ camera' = [camera EXCEPT ![b] = "gone"]
  /\ segments' = Append(segments, b)
  /\ abandoned' = abandoned \cup {Created}
  /\ UNCHANGED <<shmid, msgq, sent, threadVars, crashes, queue, vmem_images, log_status>>

\* msgget or msgsnd fails: the camera ends and leaves its segment behind.
CameraGivesUp(b) ==
  /\ "camera" \in Faults
  /\ camera[b] \in {"filled", "connected"}
  /\ camera' = [camera EXCEPT ![b] = "gone"]
  /\ abandoned' = abandoned \cup {shmid[b]}
  /\ UNCHANGED <<shmid, msgq, sent, threadVars, crashes, queue, segments, vmem_images, log_status>>

\* msgget with IPC_CREAT.
CameraConnect(b) ==
  /\ camera[b] = "filled"
  /\ camera' = [camera EXCEPT ![b] = "connected"]
  /\ msgq' = TRUE
  /\ UNCHANGED <<shmid, sent, threadVars, historyVars, queue, segments, vmem_images, log_status>>

\* msgsnd, which blocks while the queue is full.
CameraSend(b) ==
  /\ camera[b] = "connected" /\ Len(queue) < QueueCapacity
  /\ camera' = [camera EXCEPT ![b] = "sent"]
  /\ queue' = Append(queue, [batch |-> b, shmid |-> shmid[b]])
  /\ sent' = Append(sent, b)
  /\ UNCHANGED <<shmid, msgq, threadVars, historyVars, segments, vmem_images, log_status>>

-----------------------------------------------------------------------------
(* The processing thread.                                                  *)

Keep == UNCHANGED <<cameraVars, historyVars>>

\* process_one or process_all is called.
Start(m) ==
  /\ pc = "idle"
  /\ pc' = "fetch" /\ mode' = m
  /\ UNCHANGED <<input_batch, pipeline_result, shmaddr, image_index, queue, segments, vmem_images, log_status>>
  /\ Keep

FetchFails(code) ==
  /\ log_status' = code
  /\ pc' = "idle"
  /\ UNCHANGED <<mode, input_batch, pipeline_result, shmaddr, image_index, queue, segments, vmem_images>>
  /\ Keep

FetchNoQueue == pc = "fetch" /\ ~msgq /\ FetchFails(MSGQ_NOT_FOUND)

\* IPC_NOWAIT; a msgrcv that may wait blocks instead.  Nothing in the repository
\* removes the queue or interrupts the thread, msgrcv's other ways to fail.
FetchEmpty == pc = "fetch" /\ msgq /\ queue = <<>> /\ ~mode.wait /\ FetchFails(MSGQ_EMPTY)

\* Mutant: the newest message is taken first.
Fetch_Newest ==
  /\ pc = "fetch" /\ queue # <<>>
  /\ input_batch' = queue[Len(queue)] /\ queue' = SubSeq(queue, 1, Len(queue) - 1)
  /\ pipeline_result' = "none" /\ shmaddr' = 0 /\ image_index' = 0
  /\ pc' = "execute"
  /\ UNCHANGED <<mode, segments, vmem_images, log_status>>
  /\ Keep

\* Mutant: the message is read but stays in the queue.
Fetch_Peeks ==
  /\ pc = "fetch" /\ queue # <<>>
  /\ input_batch' = Head(queue) /\ queue' = queue
  /\ pipeline_result' = "none" /\ shmaddr' = 0 /\ image_index' = 0
  /\ pc' = "execute"
  /\ UNCHANGED <<mode, segments, vmem_images, log_status>>
  /\ Keep

Fetch ==
  /\ pc = "fetch" /\ queue # <<>>
  /\ input_batch' = Head(queue) /\ queue' = Tail(queue)
  /\ pipeline_result' = "none" /\ shmaddr' = 0 /\ image_index' = 0
  /\ pc' = "execute"
  /\ UNCHANGED <<mode, segments, vmem_images, log_status>>
  /\ Keep

\* A module moves the images to a segment of its own, removes the old one and
\* returns the new id, which execute_pipeline copies into the batch.
ModuleReplacesSegment ==
  /\ pc = "execute" /\ Live(input_batch.shmid) /\ Len(segments) < MaxSegments
  /\ segments' = Append([segments EXCEPT ![input_batch.shmid] = NoBatch], input_batch.batch)
  /\ input_batch' = [input_batch EXCEPT !.shmid = Created]
  /\ UNCHANGED <<pc, mode, pipeline_result, shmaddr, image_index, queue, vmem_images, log_status>>
  /\ Keep

\* load_pipeline_and_execute returns SUCCESS; err_current_* are reset.
ExecuteSucceeds ==
  /\ pc = "execute"
  /\ pipeline_result' = "success" /\ pc' = "attach"
  /\ UNCHANGED <<mode, input_batch, shmaddr, image_index, queue, segments, vmem_images, log_status>>
  /\ Keep

\* It returns FAILURE; the crash code stands for any that it may publish.
ExecuteFails ==
  /\ pc = "execute"
  /\ pipeline_result' = "failure" /\ pc' = "attach"
  /\ log_status' = MODULE_EXIT_CRASH
  /\ UNCHANGED <<mode, input_batch, shmaddr, image_index, queue, segments, vmem_images>>
  /\ Keep

\* A module that has replaced the segment fails before it returns the new id.
ExecuteLosesSegment ==
  /\ "lose" \in Faults
  /\ pc = "execute" /\ Live(input_batch.shmid) /\ Len(segments) < MaxSegments
  /\ segments' = Append([segments EXCEPT ![input_batch.shmid] = NoBatch], input_batch.batch)
  /\ abandoned' = abandoned \cup {Created}
  /\ pipeline_result' = "failure" /\ pc' = "attach"
  /\ log_status' = MODULE_EXIT_CRASH
  /\ UNCHANGED <<cameraVars, crashes, mode, input_batch, shmaddr, image_index, queue, vmem_images>>

\* What follows shmat: it does not return NULL, even when it fails.
AttachStep(addr) ==
  /\ shmaddr' = addr
  /\ pc' = IF pipeline_result = "success" THEN "upload" ELSE "detach"
  /\ UNCHANGED <<mode, input_batch, pipeline_result, image_index, queue, segments, vmem_images, log_status>>
  /\ Keep

Attach == pc = "attach" /\ Live(input_batch.shmid) /\ AttachStep(input_batch.shmid)

AttachFails ==
  /\ pc = "attach" /\ ("attach" \in Faults \/ ~Live(input_batch.shmid))
  /\ AttachStep(0)

\* Mutant: the loop runs one image too far.
UploadImage_TooFar ==
  /\ pc = "upload" /\ shmaddr # 0 /\ image_index <= NumImages[input_batch.batch]
  /\ image_index' = image_index + 1
  /\ vmem_images' = Append(vmem_images, [of |-> segments[shmaddr], image |-> image_index + 1])
  /\ UNCHANGED <<pc, mode, input_batch, pipeline_result, shmaddr, queue, segments, log_status>>
  /\ Keep

\* One turn of the loop in upload.
UploadImage ==
  /\ pc = "upload" /\ shmaddr # 0 /\ image_index < NumImages[input_batch.batch]
  /\ image_index' = image_index + 1
  /\ vmem_images' = Append(vmem_images, [of |-> segments[shmaddr], image |-> image_index + 1])
  /\ UNCHANGED <<pc, mode, input_batch, pipeline_result, shmaddr, queue, segments, log_status>>
  /\ Keep

UploadDone ==
  /\ pc = "upload" /\ image_index >= NumImages[input_batch.batch]
  /\ pc' = "detach"
  /\ UNCHANGED <<mode, input_batch, pipeline_result, shmaddr, image_index, queue, segments, vmem_images, log_status>>
  /\ Keep

\* shmdt fails on the address that shmat's failure left behind.
Detach ==
  /\ pc = "detach"
  /\ pc' = "remove"
  /\ log_status' = IF shmaddr = 0 THEN SHM_DETACH ELSE log_status
  /\ UNCHANGED <<mode, input_batch, pipeline_result, shmaddr, image_index, queue, segments, vmem_images>>
  /\ Keep

\* Mutant: process_all, too, ends after a batch.
NextBatch_Stops ==
  /\ pc' = "idle"
  /\ input_batch' = Nothing /\ pipeline_result' = "none"
  /\ shmaddr' = 0 /\ image_index' = 0
  /\ UNCHANGED <<cameraVars, crashes, mode, queue, vmem_images>>

\* The batch is done with: process_all goes on, process_one returns.
NextBatch ==
  /\ pc' = IF mode.all THEN "fetch" ELSE "idle"
  /\ input_batch' = Nothing /\ pipeline_result' = "none"
  /\ shmaddr' = 0 /\ image_index' = 0
  /\ UNCHANGED <<cameraVars, crashes, mode, queue, vmem_images>>

\* Mutant: only the segment of an uploaded batch is removed.
Remove_OnSuccess ==
  /\ pc = "remove" /\ Live(input_batch.shmid)
  /\ segments' = IF pipeline_result = "success"
                   THEN [segments EXCEPT ![input_batch.shmid] = NoBatch] ELSE segments
  /\ NextBatch
  /\ UNCHANGED <<abandoned, log_status>>

\* shmctl with IPC_RMID.
Remove ==
  /\ pc = "remove" /\ Live(input_batch.shmid)
  /\ segments' = [segments EXCEPT ![input_batch.shmid] = NoBatch]
  /\ NextBatch
  /\ UNCHANGED <<abandoned, log_status>>

RemoveFails ==
  /\ pc = "remove" /\ ("remove" \in Faults \/ ~Live(input_batch.shmid))
  /\ log_status' = SHM_REMOVE
  /\ abandoned' = abandoned \cup {input_batch.shmid}
  /\ NextBatch
  /\ UNCHANGED segments

-----------------------------------------------------------------------------
(* Crashes.                                                                *)

\* The process is gone and started again; what it had received is gone too.
Restart ==
  /\ pc' = "idle"
  /\ input_batch' = Nothing /\ pipeline_result' = "none"
  /\ shmaddr' = 0 /\ image_index' = 0
  /\ abandoned' = abandoned \cup {input_batch.shmid}
  /\ crashes' = crashes + 1
  /\ UNCHANGED <<cameraVars, mode, queue, segments, vmem_images, log_status>>

Crash == crashes < MaxCrashes /\ Restart

\* upload reads the size of the metadata through the address (void *) -1.
Segfault ==
  /\ pc = "upload" /\ shmaddr = 0 /\ image_index < NumImages[input_batch.batch]
  /\ Restart

-----------------------------------------------------------------------------
CameraStep(b) ==
  \/ CameraFill(b) \/ CameraEmpty(b) \/ CameraConnect(b) \/ CameraSend(b)
  \/ CameraNoSegment(b) \/ CameraDies(b) \/ CameraGivesUp(b)

\* load_pipeline_and_execute, whose end depends on the modules.
Execution ==
  ModuleReplacesSegment \/ ExecuteSucceeds \/ ExecuteFails \/ ExecuteLosesSegment

\* What the thread does on its own.
Thread ==
  \/ FetchNoQueue \/ FetchEmpty \/ Fetch
  \/ Attach \/ AttachFails \/ UploadImage \/ UploadDone \/ Segfault
  \/ Detach \/ Remove \/ RemoveFails

Next ==
  \/ \E b \in Batches : CameraStep(b)
  \/ \E m \in Modes : Start(m)
  \/ Execution
  \/ Thread
  \/ Crash

Spec == Init /\ [][Next]_vars

(***************************************************************************)
(* The scheduler runs the processing thread.  Nothing obliges a pipeline   *)
(* to come to an end (a silent module keeps it for ever, see               *)
(* PipelineExecution!SilentExitReported), a camera to send or an operator   *)
(* to start a run.                                                         *)
(***************************************************************************)
FairSpec == Spec /\ WF_vars(Thread)

-----------------------------------------------------------------------------
(* Properties.                                                             *)

Message == [batch : Batches, shmid : Nat]

\* Every variable keeps to the values its C counterpart can take; the upload
\* loop never goes past the last image of the batch.
TypeOK ==
  /\ camera \in [Batches -> {"off", "filled", "connected", "sent", "gone"}]
  /\ shmid \in [Batches -> Nat]
  /\ msgq \in BOOLEAN
  /\ queue \in Seq(Message)
  /\ segments \in Seq(Batches \cup {NoBatch})
  /\ pc \in {"idle", "fetch", "execute", "attach", "upload", "detach", "remove"}
  /\ mode \in [all : BOOLEAN, wait : BOOLEAN]
  /\ input_batch \in Message \cup {Nothing}
  /\ pipeline_result \in {"none", "success", "failure"}
  /\ shmaddr \in Nat
  /\ image_index \in Nat
  /\ input_batch # Nothing => image_index <= NumImages[input_batch.batch]
  /\ vmem_images \in Seq([of : Batches, image : Nat \ {0}])
  /\ log_status \in Nat
  /\ sent \in Seq(Batches)
  /\ abandoned \subseteq Nat
  /\ crashes \in Nat

\* A message in the queue, unless it announces no image, finds its images: its
\* segment is live, holds the images of this batch and no other, and is neither
\* in another message nor in the batch being processed.
QueuedImagesIntact ==
  \A k \in DOMAIN queue : NumImages[queue[k].batch] > 0 =>
    /\ Live(queue[k].shmid) /\ segments[queue[k].shmid] = queue[k].batch
    /\ queue[k].shmid # input_batch.shmid
    /\ \A l \in DOMAIN queue : queue[l].shmid = queue[k].shmid => l = k

\* Who is to remove a segment: a camera, until its message is sent, the queue,
\* or the thread.
Held(s) ==
  \/ \E b \in Batches : camera[b] \in {"filled", "connected"} /\ shmid[b] = s
  \/ \E k \in DOMAIN queue : queue[k].shmid = s
  \/ input_batch.shmid = s

\* Every live segment has somebody who is to remove it, whether its batch is
\* uploaded or not, unless it was lost: by a crash of DIPP, a failing removal, a
\* module, or a camera that failed after it had created the segment.
SegmentsHeld == \A s \in DOMAIN segments : Live(s) => Held(s) \/ s \in abandoned

\* What is attached for the upload are the images of the batch received.
UploadsOwnImages ==
  pc = "upload" /\ shmaddr # 0 => segments[shmaddr] = input_batch.batch

\* The processing implements BatchService: order of submission, one batch at
\* a time, each image once, nothing of a batch whose pipeline failed, and a
\* batch cut short only by a crash.
Service == INSTANCE BatchService WITH
  submitted <- sent, taken <- Len(sent) - Len(queue),
  current <- input_batch.batch, verdict <- pipeline_result,
  progress <- image_index, published <- vmem_images

ImplementsService == Service!Spec

Queued(b) == \E k \in DOMAIN queue : queue[k].batch = b

\* process_all does not end, or starve a batch, while there is one in the
\* queue, unless DIPP crashes or a pipeline never comes to its end.
QueueDrains ==
  \A b \in Batches : \A n \in 0 .. MaxCrashes :
    (pc # "idle" /\ mode.all /\ Queued(b) /\ crashes = n)
      ~> (~Queued(b) \/ crashes > n \/ [](pc = "execute"))

-----------------------------------------------------------------------------
(* What the repository says and the code does not do.                      *)

\* README, "Error signaling": a segment that cannot be attached is reported
\* as 303, Attach.
AttachErrorReported ==
  (pc = "attach" /\ ~Live(input_batch.shmid)) ~> log_status = SHM_ATTACH
=============================================================================
