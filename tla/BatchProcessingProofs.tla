------------------------ MODULE BatchProcessingProofs ------------------------
(***************************************************************************)
(* Proofs about BatchProcessing, for any number of batches, any queue      *)
(* capacity, every set of faults and any number of crashes.                *)
(***************************************************************************)
EXTENDS BatchProcessing, TLAPS

(* The parts of the inductive invariant.                                   *)

CameraTypes ==
  /\ camera \in [Batches -> {"off", "filled", "connected", "sent", "gone"}]
  /\ shmid \in [Batches -> Nat]
  /\ msgq \in BOOLEAN
  /\ log_status \in Nat
  /\ abandoned \subseteq Nat
  /\ crashes \in Nat

SequenceTypes ==
  /\ queue \in Seq(Message)
  /\ segments \in Seq(Batches \cup {NoBatch})
  /\ vmem_images \in Seq([of : Batches, image : Nat \ {0}])
  /\ sent \in Seq(Batches)

\* The thread: pc tells what is known of the batch and of its result.
ThreadInv ==
  /\ pc \in {"idle", "fetch", "execute", "attach", "upload", "detach", "remove"}
  /\ mode \in [all : BOOLEAN, wait : BOOLEAN]
  /\ input_batch \in Message \cup {Nothing}
  /\ shmaddr \in Nat /\ image_index \in Nat
  /\ pc \in {"idle", "fetch"} <=> input_batch = Nothing
  /\ pc \in {"idle", "fetch", "execute"} => pipeline_result = "none"
  /\ pc \in {"attach", "upload", "detach", "remove"} => pipeline_result \in {"success", "failure"}
  /\ pc = "upload" => pipeline_result = "success"
  /\ pc \in {"idle", "fetch", "execute", "attach"} => image_index = 0 /\ shmaddr = 0
  /\ pc = "upload" => image_index <= NumImages[input_batch.batch]
  /\ pc \in {"detach", "remove"} =>
       image_index = IF pipeline_result = "success" THEN NumImages[input_batch.batch] ELSE 0

\* A camera's segment, if it has one, holds its images until its message is
\* sent; one with images has a segment then.
CameraInv ==
  \A b \in Batches :
    /\ camera[b] = "off" => shmid[b] = 0
    /\ camera[b] \in {"filled", "connected"} =>
         /\ shmid[b] # 0 => shmid[b] \in DOMAIN segments /\ segments[shmid[b]] = b
         /\ NumImages[b] > 0 => shmid[b] # 0

\* So does the segment of a message, and there is one message for a batch.
QueueInv ==
  /\ \A k \in DOMAIN queue :
       /\ camera[queue[k].batch] = "sent"
       /\ queue[k].shmid # 0 =>
            queue[k].shmid \in DOMAIN segments /\ segments[queue[k].shmid] = queue[k].batch
       /\ NumImages[queue[k].batch] > 0 => queue[k].shmid # 0
       /\ queue[k].batch # input_batch.batch
  /\ \A k, l \in DOMAIN queue : queue[k].batch = queue[l].batch => k = l

\* The segment of the batch received holds its images or is gone, and it does
\* not go while it is attached.
InputInv ==
  /\ input_batch # Nothing =>
       /\ camera[input_batch.batch] = "sent"
       /\ input_batch.shmid # 0 =>
            /\ input_batch.shmid \in DOMAIN segments
            /\ segments[input_batch.shmid] \in {input_batch.batch, NoBatch}
  /\ shmaddr # 0 => shmaddr = input_batch.shmid /\ segments[shmaddr] = input_batch.batch

\* The queue holds the batches sent last, in the order in which they were sent.
SentInv ==
  /\ Len(queue) <= Len(sent)
  /\ \A k \in DOMAIN queue : queue[k].batch = sent[Len(sent) - Len(queue) + k]
  /\ \A k \in DOMAIN sent : camera[sent[k]] = "sent"

IInv ==
  /\ CameraTypes /\ SequenceTypes /\ ThreadInv
  /\ CameraInv /\ QueueInv /\ InputInv /\ SentInv /\ SegmentsHeld
-----------------------------------------------------------------------------
(* Segments: shmctl clears one, a module clears one and adds one.          *)

LEMMA ClearedSegment ==
  ASSUME NEW s \in Seq(Batches \cup {NoBatch}), NEW k \in DOMAIN s
  PROVE  LET t == [s EXCEPT ![k] = NoBatch] IN
           /\ t \in Seq(Batches \cup {NoBatch}) /\ Len(t) = Len(s) /\ DOMAIN t = DOMAIN s
           /\ t[k] = NoBatch /\ \A j \in DOMAIN s \ {k} : t[j] = s[j]
  OBVIOUS

LEMMA AddedSegment ==
  ASSUME NEW s \in Seq(Batches \cup {NoBatch}), NEW b \in Batches
  PROVE  LET t == Append(s, b) IN
           /\ t \in Seq(Batches \cup {NoBatch}) /\ DOMAIN t = DOMAIN s \cup {Len(s) + 1}
           /\ Len(s) + 1 \in Nat \ {0} /\ Len(s) + 1 \notin DOMAIN s
           /\ t[Len(s) + 1] = b /\ \A j \in DOMAIN s : t[j] = s[j]
  OBVIOUS

LEMMA ReplacedSegment ==
  ASSUME NEW s \in Seq(Batches \cup {NoBatch}), NEW k \in DOMAIN s, NEW b \in Batches
  PROVE  LET t == Append([s EXCEPT ![k] = NoBatch], b) IN
           /\ t \in Seq(Batches \cup {NoBatch}) /\ DOMAIN t = DOMAIN s \cup {Len(s) + 1}
           /\ Len(s) + 1 \in Nat \ {0} /\ Len(s) + 1 \notin DOMAIN s
           /\ t[Len(s) + 1] = b /\ t[k] = NoBatch /\ \A j \in DOMAIN s \ {k} : t[j] = s[j]
<1> DEFINE c == [s EXCEPT ![k] = NoBatch]
<1>1. c \in Seq(Batches \cup {NoBatch}) /\ Len(c) = Len(s) /\ DOMAIN c = DOMAIN s
      /\ c[k] = NoBatch /\ \A j \in DOMAIN s \ {k} : c[j] = s[j]
  BY ClearedSegment
<1> HIDE DEF c
<1> QED
  BY <1>1, AddedSegment DEF c

-----------------------------------------------------------------------------
(* The invariant holds initially and every step preserves it.              *)

\* A batch that has been received is a message.
LEMMA InputIsMessage ==
  ASSUME IInv
  PROVE  /\ Nothing \notin Message
         /\ input_batch.shmid \in Nat
         /\ input_batch # Nothing =>
              /\ input_batch \in Message
              /\ input_batch.batch \in Batches /\ NumImages[input_batch.batch] \in Nat
  BY BatchAssumption DEF BatchAssumption, IInv, ThreadInv, Nothing, Message

\* Sending appends the message of the camera, receiving removes the oldest.
LEMMA SentMessage ==
  ASSUME IInv, NEW b \in Batches, CameraSend(b)
  PROVE  /\ Len(queue') = Len(queue) + 1 /\ Len(sent') = Len(sent) + 1
         /\ DOMAIN queue' = DOMAIN queue \cup {Len(queue) + 1}
         /\ DOMAIN sent' = DOMAIN sent \cup {Len(sent) + 1}
         /\ \A k \in DOMAIN queue : queue'[k] = queue[k]
         /\ \A k \in DOMAIN sent : sent'[k] = sent[k]
         /\ queue'[Len(queue) + 1].batch = b /\ queue'[Len(queue) + 1].shmid = shmid[b]
         /\ sent'[Len(sent) + 1] = b
<1> DEFINE m == [batch |-> b, shmid |-> shmid[b]]
<1>1. queue' = Append(queue, m) /\ sent' = Append(sent, b) /\ m.batch = b /\ m.shmid = shmid[b]
  BY DEF CameraSend
<1>2. m \in Message
  BY DEF Message, IInv, CameraTypes
<1>3. queue \in Seq(Message) /\ sent \in Seq(Batches)
  BY DEF IInv, SequenceTypes
<1> HIDE DEF m
<1> QED
  BY <1>1, <1>2, <1>3

LEMMA ReceivedMessage ==
  ASSUME IInv, Fetch
  PROVE  /\ Len(queue') = Len(queue) - 1 /\ Len(queue) \in Nat \ {0}
         /\ 1 \in DOMAIN queue /\ input_batch' = queue[1]
         /\ \A k \in DOMAIN queue' : k + 1 \in DOMAIN queue /\ queue'[k] = queue[k + 1]
         /\ DOMAIN queue' = 1 .. (Len(queue) - 1) /\ DOMAIN queue = 1 .. Len(queue)
<1>1. queue \in Seq(Message) /\ queue # <<>>
  BY DEF IInv, SequenceTypes, Fetch
<1>2. input_batch' = Head(queue) /\ queue' = Tail(queue)
  BY DEF Fetch
<1> QED
  BY <1>1, <1>2

\* The types of the cameras' variables, the error code and the history.
LEMMA CameraTypesStep == IInv /\ [Next]_vars => CameraTypes'
<1> SUFFICES ASSUME IInv, [Next]_vars PROVE CameraTypes'
  OBVIOUS
<1>f. CameraTypes /\ Created \in Nat
  BY DEF IInv, SequenceTypes, Created
<1>g. abandoned \cup {input_batch.shmid} \subseteq Nat
  BY <1>f, InputIsMessage DEF CameraTypes
<1> USE <1>f, <1>g DEF CameraTypes, cameraVars, threadVars, historyVars, MSGQ_NOT_FOUND, MSGQ_EMPTY, MODULE_EXIT_CRASH, SHM_DETACH, SHM_REMOVE
<1>1. ASSUME NEW b \in Batches, CameraFill(b) PROVE CameraTypes'
  BY <1>1 DEF CameraFill
<1>2. ASSUME NEW b \in Batches, CameraConnect(b) PROVE CameraTypes'
  <2>1. msgq' \in BOOLEAN
    BY <1>2, Zenon DEF CameraConnect
  <2> QED
    BY <1>2, <2>1 DEF CameraConnect
<1>3. ASSUME NEW b \in Batches, CameraSend(b) PROVE CameraTypes'
  BY <1>3 DEF CameraSend
<1>3a. ASSUME NEW b \in Batches, CameraEmpty(b) PROVE CameraTypes'
  BY <1>3a DEF CameraEmpty
<1>3b. ASSUME NEW b \in Batches, CameraNoSegment(b) PROVE CameraTypes'
  BY <1>3b DEF CameraNoSegment
<1>3c. ASSUME NEW b \in Batches, CameraDies(b) PROVE CameraTypes'
  BY <1>3c DEF CameraDies
<1>3d. ASSUME NEW b \in Batches, CameraGivesUp(b) PROVE CameraTypes'
  BY <1>3d DEF CameraGivesUp
<1>4. ASSUME NEW m \in Modes, Start(m) PROVE CameraTypes'
  BY <1>4 DEF Start, Keep
<1>5. CASE FetchNoQueue
  BY <1>5 DEF FetchNoQueue, FetchFails, Keep
<1>6. CASE FetchEmpty
  BY <1>6 DEF FetchEmpty, FetchFails, Keep
<1>7. CASE Fetch
  BY <1>7 DEF Fetch, Keep
<1>8. CASE ModuleReplacesSegment
  BY <1>8 DEF ModuleReplacesSegment, Keep
<1>9. CASE ExecuteSucceeds
  BY <1>9 DEF ExecuteSucceeds, Keep
<1>10. CASE ExecuteFails
  BY <1>10 DEF ExecuteFails, Keep
<1>11. CASE ExecuteLosesSegment
  BY <1>11 DEF ExecuteLosesSegment, Keep
<1>12. CASE Attach
  BY <1>12 DEF Attach, AttachStep, Keep
<1>13. CASE AttachFails
  BY <1>13 DEF AttachFails, AttachStep, Keep
<1>14. CASE UploadImage
  BY <1>14 DEF UploadImage, Keep
<1>15. CASE UploadDone
  BY <1>15 DEF UploadDone, Keep
<1>16. CASE Segfault
  BY <1>16 DEF Segfault, Restart, Keep
<1>17. CASE Detach
  BY <1>17 DEF Detach, Keep
<1>18. CASE Remove
  BY <1>18 DEF Remove, NextBatch, Keep
<1>19. CASE RemoveFails
  BY <1>19 DEF RemoveFails, NextBatch, Keep
<1>20. CASE Crash
  BY <1>20 DEF Crash, Restart, Keep
<1>21. CASE UNCHANGED vars
  BY <1>21 DEF vars
<1> HIDE DEF CameraTypes, cameraVars, threadVars, historyVars, MSGQ_NOT_FOUND, MSGQ_EMPTY, MODULE_EXIT_CRASH, SHM_DETACH, SHM_REMOVE
<1> QED
  BY <1>1, <1>2, <1>3, <1>3a, <1>3b, <1>3c, <1>3d, <1>4, <1>5, <1>6, <1>7, <1>8, <1>9, <1>10, <1>11,
     <1>12, <1>13, <1>14, <1>15, <1>16, <1>17, <1>18, <1>19, <1>20, <1>21 DEF Next, CameraStep, Execution, Thread

\* The types of queue, segments and ring buffer.
LEMMA SequenceTypesStep == IInv /\ [Next]_vars => SequenceTypes'
<1> SUFFICES ASSUME IInv, [Next]_vars PROVE SequenceTypes'
  OBVIOUS
<1>f. /\ queue \in Seq(Message)
      /\ segments \in Seq(Batches \cup {NoBatch})
      /\ vmem_images \in Seq([of : Batches, image : Nat \ {0}])
      /\ sent \in Seq(Batches)
  BY DEF IInv, SequenceTypes
<1>g. \A b \in Batches : shmid[b] \in Nat
  BY DEF IInv, CameraTypes
<1>h. pc = "execute" \/ pc = "remove" \/ pc = "upload" => input_batch.batch \in Batches
  BY InputIsMessage DEF IInv, ThreadInv
<1>k. shmaddr # 0 => segments[shmaddr] = input_batch.batch
  BY DEF IInv, InputInv
<1> USE <1>f DEF SequenceTypes, cameraVars, threadVars, historyVars
<1>1. ASSUME NEW b \in Batches, CameraFill(b) PROVE SequenceTypes'
  BY <1>1 DEF CameraFill
<1>2. ASSUME NEW b \in Batches, CameraConnect(b) PROVE SequenceTypes'
  BY <1>2 DEF CameraConnect
<1>3. ASSUME NEW b \in Batches, CameraSend(b) PROVE SequenceTypes'
  <2>1. [batch |-> b, shmid |-> shmid[b]] \in Message
    BY <1>g DEF Message
  <2> QED
    BY <1>3, <2>1 DEF CameraSend
<1>3a. ASSUME NEW b \in Batches, CameraEmpty(b) PROVE SequenceTypes'
  BY <1>3a DEF CameraEmpty
<1>3b. ASSUME NEW b \in Batches, CameraNoSegment(b) PROVE SequenceTypes'
  BY <1>3b DEF CameraNoSegment
<1>3c. ASSUME NEW b \in Batches, CameraDies(b) PROVE SequenceTypes'
  BY <1>3c DEF CameraDies
<1>3d. ASSUME NEW b \in Batches, CameraGivesUp(b) PROVE SequenceTypes'
  BY <1>3d DEF CameraGivesUp
<1>4. ASSUME NEW m \in Modes, Start(m) PROVE SequenceTypes'
  BY <1>4 DEF Start, Keep
<1>5. CASE FetchNoQueue
  BY <1>5 DEF FetchNoQueue, FetchFails, Keep
<1>6. CASE FetchEmpty
  BY <1>6 DEF FetchEmpty, FetchFails, Keep
<1>7. CASE Fetch
  BY <1>7 DEF Fetch, Keep
<1>8. CASE ModuleReplacesSegment
  BY <1>8, <1>h, ReplacedSegment DEF ModuleReplacesSegment, Live, Keep
<1>9. CASE ExecuteSucceeds
  BY <1>9 DEF ExecuteSucceeds, Keep
<1>10. CASE ExecuteFails
  BY <1>10 DEF ExecuteFails, Keep
<1>11. CASE ExecuteLosesSegment
  BY <1>11, <1>h, ReplacedSegment DEF ExecuteLosesSegment, Live
<1>12. CASE Attach
  BY <1>12 DEF Attach, AttachStep, Keep
<1>13. CASE AttachFails
  BY <1>13 DEF AttachFails, AttachStep, Keep
<1>14. CASE UploadImage
  <2>1. [of |-> segments[shmaddr], image |-> image_index + 1] \in [of : Batches, image : Nat \ {0}]
    BY <1>14, <1>h, <1>k DEF UploadImage, IInv, ThreadInv
  <2> QED
    BY <1>14, <2>1 DEF UploadImage, Keep
<1>15. CASE UploadDone
  BY <1>15 DEF UploadDone, Keep
<1>16. CASE Segfault
  BY <1>16 DEF Segfault, Restart, Keep
<1>17. CASE Detach
  BY <1>17 DEF Detach, Keep
<1>18. CASE Remove
  BY <1>18, ClearedSegment DEF Remove, NextBatch, Live
<1>19. CASE RemoveFails
  BY <1>19 DEF RemoveFails, NextBatch, Keep
<1>20. CASE Crash
  BY <1>20 DEF Crash, Restart, Keep
<1>21. CASE UNCHANGED vars
  BY <1>21 DEF vars
<1> HIDE DEF SequenceTypes, cameraVars, threadVars, historyVars
<1> QED
  BY <1>1, <1>2, <1>3, <1>3a, <1>3b, <1>3c, <1>3d, <1>4, <1>5, <1>6, <1>7, <1>8, <1>9, <1>10, <1>11,
     <1>12, <1>13, <1>14, <1>15, <1>16, <1>17, <1>18, <1>19, <1>20, <1>21 DEF Next, CameraStep, Execution, Thread

\* What pc tells of the batch.
LEMMA ThreadInvStep == IInv /\ [Next]_vars => ThreadInv'
<1> SUFFICES ASSUME IInv, [Next]_vars PROVE ThreadInv'
  OBVIOUS
<1>f. ThreadInv /\ Created \in Nat
  BY DEF IInv, SequenceTypes, Created
<1>g. Modes \subseteq [all : BOOLEAN, wait : BOOLEAN]
  BY BatchAssumption DEF BatchAssumption
<1>h. /\ Nothing \notin Message
      /\ input_batch.shmid \in Nat
      /\ input_batch # Nothing =>
           /\ input_batch \in Message
           /\ input_batch.batch \in Batches /\ NumImages[input_batch.batch] \in Nat
  BY InputIsMessage
<1> USE <1>f, <1>g, <1>h DEF ThreadInv, cameraVars, threadVars, historyVars
<1>1. ASSUME NEW b \in Batches, CameraFill(b) PROVE ThreadInv'
  BY <1>1 DEF CameraFill
<1>2. ASSUME NEW b \in Batches, CameraConnect(b) PROVE ThreadInv'
  BY <1>2 DEF CameraConnect
<1>3. ASSUME NEW b \in Batches, CameraSend(b) PROVE ThreadInv'
  BY <1>3 DEF CameraSend
<1>3a. ASSUME NEW b \in Batches, CameraEmpty(b) PROVE ThreadInv'
  BY <1>3a DEF CameraEmpty
<1>3b. ASSUME NEW b \in Batches, CameraNoSegment(b) PROVE ThreadInv'
  BY <1>3b DEF CameraNoSegment
<1>3c. ASSUME NEW b \in Batches, CameraDies(b) PROVE ThreadInv'
  BY <1>3c DEF CameraDies
<1>3d. ASSUME NEW b \in Batches, CameraGivesUp(b) PROVE ThreadInv'
  BY <1>3d DEF CameraGivesUp
<1>4. ASSUME NEW m \in Modes, Start(m) PROVE ThreadInv'
  BY <1>4 DEF Start, Keep
<1>5. CASE FetchNoQueue
  BY <1>5 DEF FetchNoQueue, FetchFails, Keep
<1>6. CASE FetchEmpty
  BY <1>6 DEF FetchEmpty, FetchFails, Keep
<1>7. CASE Fetch
  <2>1. Head(queue) \in Message
    BY <1>7 DEF Fetch, IInv, SequenceTypes
  <2> QED
    BY <1>7, <2>1 DEF Fetch, Keep
<1>8. CASE ModuleReplacesSegment
  <2>1. input_batch' \in Message /\ input_batch'.batch = input_batch.batch
    BY <1>8 DEF ModuleReplacesSegment, Message
  <2> QED
    BY <1>8, <2>1 DEF ModuleReplacesSegment, Keep
<1>9. CASE ExecuteSucceeds
  BY <1>9 DEF ExecuteSucceeds, Keep
<1>10. CASE ExecuteFails
  BY <1>10 DEF ExecuteFails, Keep
<1>11. CASE ExecuteLosesSegment
  BY <1>11 DEF ExecuteLosesSegment, Keep
<1>12. CASE Attach
  BY <1>12 DEF Attach, AttachStep, Keep
<1>13. CASE AttachFails
  BY <1>13 DEF AttachFails, AttachStep, Keep
<1>14. CASE UploadImage
  BY <1>14 DEF UploadImage, Keep
<1>15. CASE UploadDone
  BY <1>15 DEF UploadDone, Keep
<1>16. CASE Segfault
  BY <1>16 DEF Segfault, Restart, Keep
<1>17. CASE Detach
  BY <1>17 DEF Detach, Keep
<1>18. CASE Remove
  BY <1>18 DEF Remove, NextBatch, Keep
<1>19. CASE RemoveFails
  BY <1>19 DEF RemoveFails, NextBatch, Keep
<1>20. CASE Crash
  BY <1>20 DEF Crash, Restart, Keep
<1>21. CASE UNCHANGED vars
  BY <1>21 DEF vars
<1> HIDE DEF ThreadInv, cameraVars, threadVars, historyVars
<1> QED
  BY <1>1, <1>2, <1>3, <1>3a, <1>3b, <1>3c, <1>3d, <1>4, <1>5, <1>6, <1>7, <1>8, <1>9, <1>10, <1>11,
     <1>12, <1>13, <1>14, <1>15, <1>16, <1>17, <1>18, <1>19, <1>20, <1>21 DEF Next, CameraStep, Execution, Thread

\* Segments the cameras hold.
LEMMA CameraInvStep == IInv /\ [Next]_vars => CameraInv'
<1> SUFFICES ASSUME IInv, [Next]_vars PROVE CameraInv'
  OBVIOUS
<1>f. /\ CameraInv /\ segments \in Seq(Batches \cup {NoBatch})
      /\ camera \in [Batches -> {"off", "filled", "connected", "sent", "gone"}] /\ shmid \in [Batches -> Nat]
  BY DEF IInv, CameraTypes, SequenceTypes
<1>g. pc \in {"execute", "remove"} =>
        /\ input_batch.batch \in Batches /\ camera[input_batch.batch] = "sent"
        /\ input_batch.shmid \in DOMAIN segments =>
             segments[input_batch.shmid] \in {input_batch.batch, NoBatch}
  <2>1. 0 \notin DOMAIN segments
    BY <1>f
  <2> QED
    BY <2>1, InputIsMessage DEF IInv, InputInv, ThreadInv
<1> USE <1>f DEF CameraInv, cameraVars, threadVars, historyVars
<1>1. ASSUME NEW b \in Batches, CameraFill(b) PROVE CameraInv'
  <2>1. /\ DOMAIN segments' = DOMAIN segments \cup {Created} /\ segments'[Created] = b
        /\ \A s \in DOMAIN segments : segments'[s] = segments[s]
    BY <1>1, AddedSegment DEF CameraFill, Created
  <2> QED
    BY <1>1, <2>1 DEF CameraFill
<1>2. ASSUME NEW b \in Batches, CameraConnect(b) PROVE CameraInv'
  BY <1>2 DEF CameraConnect
<1>3. ASSUME NEW b \in Batches, CameraSend(b) PROVE CameraInv'
  BY <1>3 DEF CameraSend
<1>3a. ASSUME NEW b \in Batches, CameraEmpty(b) PROVE CameraInv'
  BY <1>3a DEF CameraEmpty
<1>3b. ASSUME NEW b \in Batches, CameraNoSegment(b) PROVE CameraInv'
  BY <1>3b DEF CameraNoSegment
<1>3c. ASSUME NEW b \in Batches, CameraDies(b) PROVE CameraInv'
  <2>1. /\ DOMAIN segments' = DOMAIN segments \cup {Created} /\ segments'[Created] = b
        /\ \A s \in DOMAIN segments : segments'[s] = segments[s]
    BY <1>3c, AddedSegment DEF CameraDies, Created
  <2> QED
    BY <1>3c, <2>1 DEF CameraDies
<1>3d. ASSUME NEW b \in Batches, CameraGivesUp(b) PROVE CameraInv'
  BY <1>3d DEF CameraGivesUp
<1>4. ASSUME NEW m \in Modes, Start(m) PROVE CameraInv'
  BY <1>4 DEF Start, Keep
<1>5. CASE FetchNoQueue
  BY <1>5 DEF FetchNoQueue, FetchFails, Keep
<1>6. CASE FetchEmpty
  BY <1>6 DEF FetchEmpty, FetchFails, Keep
<1>7. CASE Fetch
  BY <1>7 DEF Fetch, Keep
<1>8. CASE ModuleReplacesSegment
  BY <1>8, <1>g, ReplacedSegment, BatchAssumption DEF ModuleReplacesSegment, Live, Keep, BatchAssumption
<1>9. CASE ExecuteSucceeds
  BY <1>9 DEF ExecuteSucceeds, Keep
<1>10. CASE ExecuteFails
  BY <1>10 DEF ExecuteFails, Keep
<1>11. CASE ExecuteLosesSegment
  BY <1>11, <1>g, ReplacedSegment, BatchAssumption DEF ExecuteLosesSegment, Live, BatchAssumption
<1>12. CASE Attach
  BY <1>12 DEF Attach, AttachStep, Keep
<1>13. CASE AttachFails
  BY <1>13 DEF AttachFails, AttachStep, Keep
<1>14. CASE UploadImage
  BY <1>14 DEF UploadImage, Keep
<1>15. CASE UploadDone
  BY <1>15 DEF UploadDone, Keep
<1>16. CASE Segfault
  BY <1>16 DEF Segfault, Restart, Keep
<1>17. CASE Detach
  BY <1>17 DEF Detach, Keep
<1>18. CASE Remove
  BY <1>18, <1>g, ClearedSegment, BatchAssumption DEF Remove, NextBatch, Live, BatchAssumption
<1>19. CASE RemoveFails
  BY <1>19 DEF RemoveFails, NextBatch, Keep
<1>20. CASE Crash
  BY <1>20 DEF Crash, Restart, Keep
<1>21. CASE UNCHANGED vars
  BY <1>21 DEF vars
<1> HIDE DEF CameraInv, cameraVars, threadVars, historyVars
<1> QED
  BY <1>1, <1>2, <1>3, <1>3a, <1>3b, <1>3c, <1>3d, <1>4, <1>5, <1>6, <1>7, <1>8, <1>9, <1>10, <1>11,
     <1>12, <1>13, <1>14, <1>15, <1>16, <1>17, <1>18, <1>19, <1>20, <1>21 DEF Next, CameraStep, Execution, Thread

\* Segments of messages.
LEMMA QueueInvStep == IInv /\ [Next]_vars => QueueInv'
<1> SUFFICES ASSUME IInv, [Next]_vars PROVE QueueInv'
  OBVIOUS
<1>f. /\ QueueInv /\ segments \in Seq(Batches \cup {NoBatch}) /\ queue \in Seq(Message)
      /\ \A m \in Message : m.batch \in Batches
      /\ camera \in [Batches -> {"off", "filled", "connected", "sent", "gone"}] /\ shmid \in [Batches -> Nat]
      /\ NoBatch \notin Batches
  BY BatchAssumption DEF BatchAssumption, IInv, CameraTypes, SequenceTypes, Message
<1>g. pc \in {"execute", "remove"} =>
        /\ input_batch.batch \in Batches
        /\ input_batch.shmid \in DOMAIN segments =>
             segments[input_batch.shmid] \in {input_batch.batch, NoBatch}
  <2>1. 0 \notin DOMAIN segments
    BY <1>f
  <2> QED
    BY <2>1, InputIsMessage DEF IInv, InputInv, ThreadInv
<1>h. Nothing.batch = NoBatch
  BY DEF Nothing
<1> USE <1>f DEF QueueInv, cameraVars, threadVars, historyVars
<1>1. ASSUME NEW b \in Batches, CameraFill(b) PROVE QueueInv'
  <2>1. /\ DOMAIN segments' = DOMAIN segments \cup {Created} /\ segments'[Created] = b
        /\ \A s \in DOMAIN segments : segments'[s] = segments[s]
    BY <1>1, AddedSegment DEF CameraFill, Created
  <2> QED
    BY <1>1, <2>1 DEF CameraFill
<1>2. ASSUME NEW b \in Batches, CameraConnect(b) PROVE QueueInv'
  BY <1>2 DEF CameraConnect
<1>3. ASSUME NEW b \in Batches, CameraSend(b) PROVE QueueInv'
  <2>1. /\ camera[b] = "connected" /\ input_batch' = input_batch /\ segments' = segments
        /\ camera' = [camera EXCEPT ![b] = "sent"]
    BY <1>3 DEF CameraSend
  <2>2. /\ shmid[b] # 0 => shmid[b] \in DOMAIN segments /\ segments[shmid[b]] = b
        /\ NumImages[b] > 0 => shmid[b] # 0
        /\ b # input_batch.batch
    BY <2>1, <1>h DEF IInv, CameraInv, InputInv
  <2>3. \A k \in DOMAIN queue : queue[k].batch # b /\ queue[k].batch \in Batches
    BY <2>1
  <2>4. ASSUME NEW k \in DOMAIN queue' PROVE k \in DOMAIN queue \/ k = Len(queue) + 1
    BY <1>3, <2>4, SentMessage
  <2>5. /\ \A k \in DOMAIN queue : queue'[k] = queue[k]
        /\ queue'[Len(queue) + 1].batch = b /\ queue'[Len(queue) + 1].shmid = shmid[b]
    BY <1>3, SentMessage
  <2>6. ASSUME NEW k \in DOMAIN queue'
        PROVE  /\ camera'[queue'[k].batch] = "sent"
               /\ queue'[k].shmid # 0 =>
                    queue'[k].shmid \in DOMAIN segments /\ segments[queue'[k].shmid] = queue'[k].batch
               /\ NumImages[queue'[k].batch] > 0 => queue'[k].shmid # 0
               /\ queue'[k].batch # input_batch.batch
    <3>1. CASE k \in DOMAIN queue
      BY <2>1, <2>3, <2>5, <3>1
    <3>2. CASE k = Len(queue) + 1
      BY <2>1, <2>2, <2>5, <3>2
    <3> QED
      BY <2>4, <3>1, <3>2
  <2>7. \A k, l \in DOMAIN queue' : queue'[k].batch = queue'[l].batch => k = l
    BY <2>3, <2>4, <2>5
  <2> QED
    BY <2>1, <2>6, <2>7
<1>3a. ASSUME NEW b \in Batches, CameraEmpty(b) PROVE QueueInv'
  BY <1>3a DEF CameraEmpty
<1>3b. ASSUME NEW b \in Batches, CameraNoSegment(b) PROVE QueueInv'
  BY <1>3b DEF CameraNoSegment
<1>3c. ASSUME NEW b \in Batches, CameraDies(b) PROVE QueueInv'
  <2>1. /\ DOMAIN segments' = DOMAIN segments \cup {Created} /\ segments'[Created] = b
        /\ \A s \in DOMAIN segments : segments'[s] = segments[s]
    BY <1>3c, AddedSegment DEF CameraDies, Created
  <2> QED
    BY <1>3c, <2>1 DEF CameraDies
<1>3d. ASSUME NEW b \in Batches, CameraGivesUp(b) PROVE QueueInv'
  BY <1>3d DEF CameraGivesUp
<1>4. ASSUME NEW m \in Modes, Start(m) PROVE QueueInv'
  BY <1>4 DEF Start, Keep
<1>5. CASE FetchNoQueue
  BY <1>5 DEF FetchNoQueue, FetchFails, Keep
<1>6. CASE FetchEmpty
  BY <1>6 DEF FetchEmpty, FetchFails, Keep
<1>7. CASE Fetch
  <2>1. camera' = camera /\ segments' = segments
    BY <1>7 DEF Fetch, Keep
  <2>2. \A k \in DOMAIN queue : k # 1 => queue[k].batch # queue[1].batch
    BY <1>7, ReceivedMessage
  <2>3. \A k \in DOMAIN queue' : k + 1 # 1 /\ k \in Int
    BY <1>7, ReceivedMessage
  <2> QED
    BY <1>7, <2>1, <2>2, <2>3, ReceivedMessage, SMTT(30)
<1>8. CASE ModuleReplacesSegment
  BY <1>8, <1>g, ReplacedSegment DEF ModuleReplacesSegment, Live, Keep
<1>9. CASE ExecuteSucceeds
  BY <1>9 DEF ExecuteSucceeds, Keep
<1>10. CASE ExecuteFails
  BY <1>10 DEF ExecuteFails, Keep
<1>11. CASE ExecuteLosesSegment
  BY <1>11, <1>g, ReplacedSegment DEF ExecuteLosesSegment, Live
<1>12. CASE Attach
  BY <1>12 DEF Attach, AttachStep, Keep
<1>13. CASE AttachFails
  BY <1>13 DEF AttachFails, AttachStep, Keep
<1>14. CASE UploadImage
  BY <1>14 DEF UploadImage, Keep
<1>15. CASE UploadDone
  BY <1>15 DEF UploadDone, Keep
<1>16. CASE Segfault
  BY <1>16, <1>h DEF Segfault, Restart
<1>17. CASE Detach
  BY <1>17 DEF Detach, Keep
<1>18. CASE Remove
  BY <1>18, <1>g, <1>h, ClearedSegment DEF Remove, NextBatch, Live
<1>19. CASE RemoveFails
  BY <1>19, <1>h DEF RemoveFails, NextBatch
<1>20. CASE Crash
  BY <1>20, <1>h DEF Crash, Restart
<1>21. CASE UNCHANGED vars
  BY <1>21 DEF vars
<1> HIDE DEF QueueInv, cameraVars, threadVars, historyVars
<1> QED
  BY <1>1, <1>2, <1>3, <1>3a, <1>3b, <1>3c, <1>3d, <1>4, <1>5, <1>6, <1>7, <1>8, <1>9, <1>10, <1>11,
     <1>12, <1>13, <1>14, <1>15, <1>16, <1>17, <1>18, <1>19, <1>20, <1>21 DEF Next, CameraStep, Execution, Thread

\* The segment of the batch received.
LEMMA InputInvStep == IInv /\ [Next]_vars => InputInv'
<1> SUFFICES ASSUME IInv, [Next]_vars PROVE InputInv'
  OBVIOUS
<1>f. /\ InputInv /\ segments \in Seq(Batches \cup {NoBatch})
      /\ camera \in [Batches -> {"off", "filled", "connected", "sent", "gone"}]
      /\ pc \in {"idle", "fetch"} <=> input_batch = Nothing
      /\ pc \in {"idle", "fetch", "execute", "attach"} => shmaddr = 0
  BY DEF IInv, CameraTypes, SequenceTypes, ThreadInv
<1>g. input_batch # Nothing => input_batch.batch \in Batches
  BY InputIsMessage
<1>h. NoBatch \notin Batches
  BY BatchAssumption DEF BatchAssumption
<1> USE <1>f, <1>g, <1>h DEF InputInv, cameraVars, threadVars, historyVars
<1>1. ASSUME NEW b \in Batches, CameraFill(b) PROVE InputInv'
  <2>1. /\ DOMAIN segments' = DOMAIN segments \cup {Created}
        /\ \A s \in DOMAIN segments : segments'[s] = segments[s]
    BY <1>1, AddedSegment DEF CameraFill, Created
  <2> QED
    BY <1>1, <2>1 DEF CameraFill
<1>2. ASSUME NEW b \in Batches, CameraConnect(b) PROVE InputInv'
  BY <1>2 DEF CameraConnect
<1>3. ASSUME NEW b \in Batches, CameraSend(b) PROVE InputInv'
  BY <1>3 DEF CameraSend
<1>3a. ASSUME NEW b \in Batches, CameraEmpty(b) PROVE InputInv'
  BY <1>3a DEF CameraEmpty
<1>3b. ASSUME NEW b \in Batches, CameraNoSegment(b) PROVE InputInv'
  BY <1>3b DEF CameraNoSegment
<1>3c. ASSUME NEW b \in Batches, CameraDies(b) PROVE InputInv'
  <2>1. /\ DOMAIN segments' = DOMAIN segments \cup {Created} /\ segments'[Created] = b
        /\ \A s \in DOMAIN segments : segments'[s] = segments[s]
    BY <1>3c, AddedSegment DEF CameraDies, Created
  <2> QED
    BY <1>3c, <2>1 DEF CameraDies
<1>3d. ASSUME NEW b \in Batches, CameraGivesUp(b) PROVE InputInv'
  BY <1>3d DEF CameraGivesUp
<1>4. ASSUME NEW m \in Modes, Start(m) PROVE InputInv'
  BY <1>4 DEF Start, Keep
<1>5. CASE FetchNoQueue
  BY <1>5 DEF FetchNoQueue, FetchFails, Keep
<1>6. CASE FetchEmpty
  BY <1>6 DEF FetchEmpty, FetchFails, Keep
<1>7. CASE Fetch
  <2>1. /\ camera[queue[1].batch] = "sent"
        /\ queue[1].shmid # 0 =>
             queue[1].shmid \in DOMAIN segments /\ segments[queue[1].shmid] = queue[1].batch
    BY <1>7, ReceivedMessage DEF IInv, QueueInv
  <2> QED
    BY <1>7, <2>1, ReceivedMessage DEF Fetch, Keep
<1>8. CASE ModuleReplacesSegment
  <2>1. /\ input_batch'.batch = input_batch.batch /\ input_batch'.shmid = Created
        /\ input_batch # Nothing
    BY <1>8, InputIsMessage DEF ModuleReplacesSegment, Message
  <2> QED
    BY <1>8, <2>1, ReplacedSegment DEF ModuleReplacesSegment, Live, Keep, Created
<1>9. CASE ExecuteSucceeds
  BY <1>9 DEF ExecuteSucceeds, Keep
<1>10. CASE ExecuteFails
  BY <1>10 DEF ExecuteFails, Keep
<1>11. CASE ExecuteLosesSegment
  BY <1>11, ReplacedSegment DEF ExecuteLosesSegment, Live
<1>12. CASE Attach
  BY <1>12 DEF Attach, AttachStep, Live, Keep
<1>13. CASE AttachFails
  BY <1>13 DEF AttachFails, AttachStep, Keep
<1>14. CASE UploadImage
  BY <1>14 DEF UploadImage, Keep
<1>15. CASE UploadDone
  BY <1>15 DEF UploadDone, Keep
<1>16. CASE Segfault
  BY <1>16 DEF Segfault, Restart, Keep
<1>17. CASE Detach
  BY <1>17 DEF Detach, Keep
<1>18. CASE Remove
  BY <1>18 DEF Remove, NextBatch
<1>19. CASE RemoveFails
  BY <1>19 DEF RemoveFails, NextBatch, Keep
<1>20. CASE Crash
  BY <1>20 DEF Crash, Restart, Keep
<1>21. CASE UNCHANGED vars
  BY <1>21 DEF vars
<1> HIDE DEF InputInv, cameraVars, threadVars, historyVars
<1> QED
  BY <1>1, <1>2, <1>3, <1>3a, <1>3b, <1>3c, <1>3d, <1>4, <1>5, <1>6, <1>7, <1>8, <1>9, <1>10, <1>11,
     <1>12, <1>13, <1>14, <1>15, <1>16, <1>17, <1>18, <1>19, <1>20, <1>21 DEF Next, CameraStep, Execution, Thread

\* The queue is the end of what was sent.
LEMMA SentInvStep == IInv /\ [Next]_vars => SentInv'
<1> SUFFICES ASSUME IInv, [Next]_vars PROVE SentInv'
  OBVIOUS
<1>f. /\ SentInv /\ camera \in [Batches -> {"off", "filled", "connected", "sent", "gone"}]
      /\ queue \in Seq(Message) /\ sent \in Seq(Batches)
  BY DEF IInv, CameraTypes, SequenceTypes
<1> USE <1>f DEF SentInv, cameraVars, threadVars, historyVars
<1>1. ASSUME NEW b \in Batches, CameraFill(b) PROVE SentInv'
  BY <1>1 DEF CameraFill
<1>2. ASSUME NEW b \in Batches, CameraConnect(b) PROVE SentInv'
  BY <1>2 DEF CameraConnect
<1>3. ASSUME NEW b \in Batches, CameraSend(b) PROVE SentInv'
  <2>1. \A k \in DOMAIN queue : Len(sent) - Len(queue) + k \in DOMAIN sent
    BY <1>f
  <2>2. ASSUME NEW k \in DOMAIN queue'
        PROVE  queue'[k].batch = sent'[Len(sent') - Len(queue') + k]
    <3>l. /\ Len(queue) \in Nat /\ Len(sent) \in Nat
          /\ Len(queue') = Len(queue) + 1 /\ Len(sent') = Len(sent) + 1
      BY <1>3, SentMessage
    <3>1. CASE k \in DOMAIN queue
      <4>1. k \in Nat /\ Len(sent') - Len(queue') + k = Len(sent) - Len(queue) + k
        BY <3>1, <3>l
      <4>2. queue'[k] = queue[k]
        BY <1>3, <3>1, SentMessage
      <4>3. sent'[Len(sent) - Len(queue) + k] = sent[Len(sent) - Len(queue) + k]
        BY <1>3, <2>1, <3>1, SentMessage
      <4> QED
        BY <3>1, <4>1, <4>2, <4>3
    <3>2. CASE k = Len(queue) + 1
      <4>1. Len(sent') - Len(queue') + k = Len(sent) + 1
        BY <3>2, <3>l
      <4> QED
        BY <1>3, <3>2, <4>1, SentMessage
    <3> QED
      BY <1>3, <3>1, <3>2, SentMessage
  <2>3. \A k \in DOMAIN sent' : camera'[sent'[k]] = "sent"
    BY <1>3, SentMessage DEF CameraSend
  <2> QED
    BY <1>3, <2>2, <2>3, SentMessage
<1>3a. ASSUME NEW b \in Batches, CameraEmpty(b) PROVE SentInv'
  BY <1>3a DEF CameraEmpty
<1>3b. ASSUME NEW b \in Batches, CameraNoSegment(b) PROVE SentInv'
  BY <1>3b DEF CameraNoSegment
<1>3c. ASSUME NEW b \in Batches, CameraDies(b) PROVE SentInv'
  BY <1>3c DEF CameraDies
<1>3d. ASSUME NEW b \in Batches, CameraGivesUp(b) PROVE SentInv'
  BY <1>3d DEF CameraGivesUp
<1>4. ASSUME NEW m \in Modes, Start(m) PROVE SentInv'
  BY <1>4 DEF Start, Keep
<1>5. CASE FetchNoQueue
  BY <1>5 DEF FetchNoQueue, FetchFails, Keep
<1>6. CASE FetchEmpty
  BY <1>6 DEF FetchEmpty, FetchFails, Keep
<1>7. CASE Fetch
  <2>1. \A k \in DOMAIN queue' : queue'[k].batch = sent[Len(sent) - Len(queue') + k]
    BY <1>7, ReceivedMessage, SMTT(30)
  <2> QED
    BY <1>7, <2>1, ReceivedMessage DEF Fetch, Keep
<1>8. CASE ModuleReplacesSegment
  BY <1>8 DEF ModuleReplacesSegment, Keep
<1>9. CASE ExecuteSucceeds
  BY <1>9 DEF ExecuteSucceeds, Keep
<1>10. CASE ExecuteFails
  BY <1>10 DEF ExecuteFails, Keep
<1>11. CASE ExecuteLosesSegment
  BY <1>11 DEF ExecuteLosesSegment, Keep
<1>12. CASE Attach
  BY <1>12 DEF Attach, AttachStep, Keep
<1>13. CASE AttachFails
  BY <1>13 DEF AttachFails, AttachStep, Keep
<1>14. CASE UploadImage
  BY <1>14 DEF UploadImage, Keep
<1>15. CASE UploadDone
  BY <1>15 DEF UploadDone, Keep
<1>16. CASE Segfault
  BY <1>16 DEF Segfault, Restart, Keep
<1>17. CASE Detach
  BY <1>17 DEF Detach, Keep
<1>18. CASE Remove
  BY <1>18 DEF Remove, NextBatch, Keep
<1>19. CASE RemoveFails
  BY <1>19 DEF RemoveFails, NextBatch, Keep
<1>20. CASE Crash
  BY <1>20 DEF Crash, Restart, Keep
<1>21. CASE UNCHANGED vars
  BY <1>21 DEF vars
<1> HIDE DEF SentInv, cameraVars, threadVars, historyVars
<1> QED
  BY <1>1, <1>2, <1>3, <1>3a, <1>3b, <1>3c, <1>3d, <1>4, <1>5, <1>6, <1>7, <1>8, <1>9, <1>10, <1>11,
     <1>12, <1>13, <1>14, <1>15, <1>16, <1>17, <1>18, <1>19, <1>20, <1>21 DEF Next, CameraStep, Execution, Thread

\* Someone is to remove every segment.
LEMMA SegmentsHeldStep == IInv /\ [Next]_vars => SegmentsHeld'
<1> SUFFICES ASSUME IInv, [Next]_vars PROVE SegmentsHeld'
  OBVIOUS
<1>f. /\ SegmentsHeld /\ segments \in Seq(Batches \cup {NoBatch})
      /\ camera \in [Batches -> {"off", "filled", "connected", "sent", "gone"}] /\ shmid \in [Batches -> Nat]
  BY DEF IInv, CameraTypes, SequenceTypes
<1>g. \A s \in DOMAIN segments : s # 0
  BY <1>f
<1>h. pc \in {"idle", "fetch"} <=> input_batch = Nothing
  BY DEF IInv, ThreadInv
<1>k. Nothing.shmid = 0
  BY DEF Nothing
<1> USE <1>f, <1>g, <1>h, <1>k DEF SegmentsHeld, Held, Live, cameraVars, threadVars, historyVars
<1>1. ASSUME NEW b \in Batches, CameraFill(b) PROVE SegmentsHeld'
  <2>1. /\ DOMAIN segments' = DOMAIN segments \cup {Created} /\ segments'[Created] = b
        /\ \A s \in DOMAIN segments : segments'[s] = segments[s]
    BY <1>1, AddedSegment DEF CameraFill, Created
  <2> QED
    BY <1>1, <2>1 DEF CameraFill
<1>2. ASSUME NEW b \in Batches, CameraConnect(b) PROVE SegmentsHeld'
  BY <1>2 DEF CameraConnect
<1>3. ASSUME NEW b \in Batches, CameraSend(b) PROVE SegmentsHeld'
  <2>1. /\ queue'[Len(queue) + 1].shmid = shmid[b] /\ Len(queue) + 1 \in DOMAIN queue'
        /\ \A k \in DOMAIN queue : k \in DOMAIN queue' /\ queue'[k] = queue[k]
    BY <1>3, SentMessage
  <2> QED
    BY <1>3, <2>1, SMTT(30) DEF CameraSend
<1>3a. ASSUME NEW b \in Batches, CameraEmpty(b) PROVE SegmentsHeld'
  BY <1>3a DEF CameraEmpty
<1>3b. ASSUME NEW b \in Batches, CameraNoSegment(b) PROVE SegmentsHeld'
  BY <1>3b DEF CameraNoSegment
<1>3c. ASSUME NEW b \in Batches, CameraDies(b) PROVE SegmentsHeld'
  <2>1. /\ DOMAIN segments' = DOMAIN segments \cup {Created} /\ segments'[Created] = b
        /\ \A s \in DOMAIN segments : segments'[s] = segments[s]
    BY <1>3c, AddedSegment DEF CameraDies, Created
  <2> QED
    BY <1>3c, <2>1 DEF CameraDies
<1>3d. ASSUME NEW b \in Batches, CameraGivesUp(b) PROVE SegmentsHeld'
  BY <1>3d DEF CameraGivesUp
<1>4. ASSUME NEW m \in Modes, Start(m) PROVE SegmentsHeld'
  BY <1>4 DEF Start, Keep
<1>5. CASE FetchNoQueue
  BY <1>5 DEF FetchNoQueue, FetchFails, Keep
<1>6. CASE FetchEmpty
  BY <1>6 DEF FetchEmpty, FetchFails, Keep
<1>7. CASE Fetch
  <2>1. \A k \in DOMAIN queue : k = 1 \/ (k - 1 \in DOMAIN queue' /\ queue'[k - 1] = queue[k])
    BY <1>7, ReceivedMessage
  <2>2. input_batch'.shmid = queue[1].shmid
    BY <1>7, ReceivedMessage
  <2>3. /\ segments' = segments /\ camera' = camera /\ shmid' = shmid /\ abandoned' = abandoned
        /\ input_batch.shmid = 0
    BY <1>7 DEF Fetch, Keep
  <2>4. ASSUME NEW s \in DOMAIN segments, Held(s) PROVE Held(s)'
    <3>1. s # input_batch.shmid
      BY <2>3
    <3>2. CASE \E k \in DOMAIN queue : queue[k].shmid = s
      BY <2>1, <2>2, <3>2
    <3> QED
      BY <2>3, <2>4, <3>1, <3>2
  <2> QED
    BY <2>3, <2>4
<1>8. CASE ModuleReplacesSegment
  <2>1. input_batch # Nothing /\ input_batch.batch \in Batches
    BY <1>8, InputIsMessage DEF ModuleReplacesSegment
  <2>2. input_batch'.shmid = Created
    BY <1>8, <2>1, InputIsMessage DEF ModuleReplacesSegment, Message
  <2> QED
    BY <1>8, <2>1, <2>2, ReplacedSegment DEF ModuleReplacesSegment, Keep, Created
<1>9. CASE ExecuteSucceeds
  BY <1>9 DEF ExecuteSucceeds, Keep
<1>10. CASE ExecuteFails
  BY <1>10 DEF ExecuteFails, Keep
<1>11. CASE ExecuteLosesSegment
  <2>1. input_batch # Nothing /\ input_batch.batch \in Batches
    BY <1>11, InputIsMessage DEF ExecuteLosesSegment
  <2> QED
    BY <1>11, <2>1, ReplacedSegment DEF ExecuteLosesSegment, Created
<1>12. CASE Attach
  BY <1>12 DEF Attach, AttachStep, Keep
<1>13. CASE AttachFails
  BY <1>13 DEF AttachFails, AttachStep, Keep
<1>14. CASE UploadImage
  BY <1>14 DEF UploadImage, Keep
<1>15. CASE UploadDone
  BY <1>15 DEF UploadDone, Keep
<1>16. CASE Segfault
  BY <1>16 DEF Segfault, Restart, Keep
<1>17. CASE Detach
  BY <1>17 DEF Detach, Keep
<1>18. CASE Remove
  BY <1>18, ClearedSegment DEF Remove, NextBatch
<1>19. CASE RemoveFails
  BY <1>19 DEF RemoveFails, NextBatch, Keep
<1>20. CASE Crash
  BY <1>20 DEF Crash, Restart, Keep
<1>21. CASE UNCHANGED vars
  BY <1>21 DEF vars
<1> HIDE DEF SegmentsHeld, Held, Live, cameraVars, threadVars, historyVars
<1> QED
  BY <1>1, <1>2, <1>3, <1>3a, <1>3b, <1>3c, <1>3d, <1>4, <1>5, <1>6, <1>7, <1>8, <1>9, <1>10, <1>11,
     <1>12, <1>13, <1>14, <1>15, <1>16, <1>17, <1>18, <1>19, <1>20, <1>21 DEF Next, CameraStep, Execution, Thread

THEOREM BatchInvariance == Spec => []IInv
<1>1. Init => IInv
  <2> SUFFICES ASSUME Init PROVE IInv
    OBVIOUS
  <2>1. CameraTypes
    <3>1. msgq \in BOOLEAN
      BY Zenon DEF Init
    <3> QED
      BY <3>1 DEF Init, CameraTypes
  <2>2. SequenceTypes
    BY DEF Init, SequenceTypes
  <2>3. ThreadInv
    <3>1. [all |-> FALSE, wait |-> FALSE] \in [all : BOOLEAN, wait : BOOLEAN]
      OBVIOUS
    <3> QED
      BY <3>1 DEF Init, ThreadInv
  <2>4. CameraInv /\ QueueInv /\ InputInv /\ SentInv /\ SegmentsHeld
    BY DEF Init, CameraInv, QueueInv, InputInv, SentInv, SegmentsHeld
  <2> QED
    BY <2>1, <2>2, <2>3, <2>4 DEF IInv
<1>2. IInv /\ [Next]_vars => IInv'
  <2> SUFFICES ASSUME IInv, [Next]_vars PROVE IInv'
    OBVIOUS
  <2>1. /\ CameraTypes' /\ SequenceTypes' /\ ThreadInv' /\ CameraInv'
        /\ QueueInv' /\ InputInv' /\ SentInv' /\ SegmentsHeld'
    BY CameraTypesStep, SequenceTypesStep, ThreadInvStep, CameraInvStep,
       QueueInvStep, InputInvStep, SentInvStep, SegmentsHeldStep
  <2> QED
    BY <2>1 DEF IInv
<1> QED
  BY <1>1, <1>2, PTL DEF Spec

-----------------------------------------------------------------------------
(* What the invariant gives.                                               *)

\* Every variable keeps to its type, and upload never reads past the last
\* image of the batch.
THEOREM BatchTypes == Spec => []TypeOK
<1>1. IInv => TypeOK
  <2> SUFFICES ASSUME IInv PROVE TypeOK
    OBVIOUS
  <2>1. input_batch # Nothing => image_index <= NumImages[input_batch.batch]
    BY InputIsMessage DEF IInv, ThreadInv
  <2>2. pipeline_result \in {"none", "success", "failure"}
    BY DEF IInv, ThreadInv
  <2> QED
    BY <2>1, <2>2 DEF IInv, CameraTypes, SequenceTypes, ThreadInv, TypeOK
<1> QED
  BY <1>1, BatchInvariance, PTL

\* Whatever fails, and however often DIPP crashes, a message that waits in the
\* queue and announces images keeps them: see QueuedImagesIntact.
THEOREM ImagesIntact == Spec => []QueuedImagesIntact
<1>1. IInv => QueuedImagesIntact
  <2> SUFFICES ASSUME IInv, NEW k \in DOMAIN queue, NumImages[queue[k].batch] > 0
               PROVE  /\ Live(queue[k].shmid) /\ segments[queue[k].shmid] = queue[k].batch
                      /\ queue[k].shmid # input_batch.shmid
                      /\ \A l \in DOMAIN queue : queue[l].shmid = queue[k].shmid => l = k
    BY DEF QueuedImagesIntact
  <2>1. /\ queue[k].shmid \in DOMAIN segments /\ segments[queue[k].shmid] = queue[k].batch
        /\ queue[k].batch # input_batch.batch /\ queue[k].shmid # 0
        /\ \A l \in DOMAIN queue : queue[l].shmid # 0 => segments[queue[l].shmid] = queue[l].batch
        /\ \A l \in DOMAIN queue : queue[l].batch = queue[k].batch => l = k
    BY DEF IInv, QueueInv
  <2>2. queue[k] \in Message
    BY DEF IInv, SequenceTypes
  <2>3. queue[k].batch \in Batches /\ queue[k].batch # NoBatch
    BY <2>2, BatchAssumption DEF Message, BatchAssumption
  <2>4. queue[k].shmid # input_batch.shmid
    <3>1. CASE input_batch = Nothing
      <4>1. segments \in Seq(Batches \cup {NoBatch}) /\ input_batch.shmid = 0
        BY <3>1 DEF IInv, SequenceTypes, Nothing
      <4> QED
        BY <2>1, <4>1
    <3>2. CASE input_batch # Nothing
      BY <2>1, <2>3, <3>2 DEF IInv, InputInv
    <3> QED
      BY <3>1, <3>2
  <2> QED
    BY <2>1, <2>3, <2>4 DEF Live
<1> QED
  BY <1>1, BatchInvariance, PTL

\* No segment is left behind but by a crash, a failing shmctl, a module that
\* loses it or a camera that fails: see SegmentsHeld.
THEOREM NoSegmentLeaks == Spec => []SegmentsHeld
<1>1. IInv => SegmentsHeld
  BY DEF IInv
<1> QED
  BY <1>1, BatchInvariance, PTL

\* No batch is uploaded under another's name: see UploadsOwnImages.
THEOREM OwnImagesUploaded == Spec => []UploadsOwnImages
<1>1. IInv => UploadsOwnImages
  BY DEF IInv, InputInv, UploadsOwnImages
<1> QED
  BY <1>1, BatchInvariance, PTL

-----------------------------------------------------------------------------
(* Every step of the processing is a step of the service or none at all.   *)

LEMMA BatchInitRefines == Init => Service!Init
  BY DEF Init, Service!Init, Nothing

LEMMA CrashRefines == ASSUME IInv, Restart PROVE Service!Next
<1>1. Service!Crash
  BY DEF Restart, Service!Crash, cameraVars, Nothing
<1> QED
  BY <1>1 DEF Service!Next

LEMMA RetireRefines ==
  ASSUME IInv, pc = "remove", NextBatch
  PROVE  Service!Next
<1>1. input_batch # Nothing /\ input_batch.batch # NoBatch
  BY InputIsMessage, BatchAssumption DEF IInv, ThreadInv, BatchAssumption
<1>2. Service!Retire
  BY <1>1 DEF NextBatch, Service!Retire, cameraVars, Nothing, IInv, ThreadInv
<1> QED
  BY <1>2 DEF Service!Next

LEMMA BatchStepRefines == IInv /\ [Next]_vars => [Service!Next]_Service!vars
<1> SUFFICES ASSUME IInv, [Next]_vars PROVE [Service!Next]_Service!vars
  OBVIOUS
<1> USE DEF cameraVars, threadVars, historyVars
<1>f. pc \in {"execute", "upload"} => input_batch.batch # NoBatch
  BY InputIsMessage, BatchAssumption DEF IInv, ThreadInv, BatchAssumption
<1>1. ASSUME NEW b \in Batches, CameraFill(b) \/ CameraConnect(b) \/ CameraEmpty(b)
                              \/ CameraNoSegment(b) \/ CameraDies(b) \/ CameraGivesUp(b)
      PROVE  UNCHANGED Service!vars
  BY <1>1 DEF CameraFill, CameraConnect, CameraEmpty, CameraNoSegment, CameraDies, CameraGivesUp,
     Service!vars
<1>2. ASSUME NEW b \in Batches, CameraSend(b) PROVE Service!Next
  <2>1. \A k \in DOMAIN sent : sent[k] # b
    BY <1>2 DEF CameraSend, IInv, SentInv
  <2>2. Len(sent') - Len(queue') = Len(sent) - Len(queue)
    <3>1. Len(sent') = Len(sent) + 1 /\ Len(queue') = Len(queue) + 1
      BY <1>2, SentMessage
    <3>2. Len(sent) \in Nat /\ Len(queue) \in Nat
      BY DEF IInv, SequenceTypes
    <3> QED
      BY <3>1, <3>2
  <2>3. Service!Submit(b)
    BY <1>2, <2>1, <2>2 DEF CameraSend, Service!Submit
  <2> QED
    BY <2>3 DEF Service!Next
<1>3. CASE Fetch
  <2>1. /\ Len(sent) \in Nat /\ Len(queue) \in Nat \ {0} /\ Len(queue') = Len(queue) - 1
        /\ queue[1].batch = sent[Len(sent) - Len(queue) + 1]
        /\ input_batch' = queue[1] /\ sent' = sent
    BY <1>3, ReceivedMessage DEF IInv, SentInv, SequenceTypes, Fetch, Keep
  <2>2. /\ Len(sent) - Len(queue) < Len(sent)
        /\ Len(sent') - Len(queue') = (Len(sent) - Len(queue)) + 1
    BY <2>1
  <2>3. input_batch.batch = NoBatch
    BY <1>3 DEF Fetch, IInv, ThreadInv, Nothing
  <2>4. Service!Take
    BY <1>3, <2>1, <2>2, <2>3 DEF Fetch, Keep, Service!Take
  <2> QED
    BY <2>4 DEF Service!Next
<1>4. CASE ModuleReplacesSegment
  <2>1. input_batch'.batch = input_batch.batch
    BY <1>4, InputIsMessage DEF ModuleReplacesSegment, Message, IInv, ThreadInv
  <2> QED
    BY <1>4, <2>1 DEF ModuleReplacesSegment, Keep, Service!vars
<1>5. CASE ExecuteSucceeds
  <2>1. Service!Judge("success")
    BY <1>f, <1>5 DEF ExecuteSucceeds, Keep, Service!Judge, IInv, ThreadInv
  <2> QED
    BY <2>1 DEF Service!Next
<1>6. CASE ExecuteFails \/ ExecuteLosesSegment
  <2>1. Service!Judge("failure")
    BY <1>f, <1>6 DEF ExecuteFails, ExecuteLosesSegment, Keep, Service!Judge, IInv, ThreadInv
  <2> QED
    BY <2>1 DEF Service!Next
<1>7. CASE UploadImage
  <2>1. segments[shmaddr] = input_batch.batch
    BY <1>7 DEF UploadImage, IInv, InputInv
  <2>2. Service!Publish
    BY <1>f, <1>7, <2>1 DEF UploadImage, Keep, Service!Publish, IInv, ThreadInv
  <2> QED
    BY <2>2 DEF Service!Next
<1>8. CASE Remove \/ RemoveFails
  BY <1>8, RetireRefines DEF Remove, RemoveFails
<1>9. CASE Crash \/ Segfault
  BY <1>9, CrashRefines DEF Crash, Segfault
<1>10. CASE FetchNoQueue \/ FetchEmpty \/ Attach \/ AttachFails \/ UploadDone \/ Detach
  BY <1>10 DEF FetchNoQueue, FetchEmpty, FetchFails, Attach, AttachFails, AttachStep,
     UploadDone, Detach, Keep, Service!vars
<1>11. ASSUME NEW m \in Modes, Start(m) PROVE UNCHANGED Service!vars
  BY <1>11 DEF Start, Keep, Service!vars
<1>12. CASE UNCHANGED vars
  BY <1>12 DEF vars, Service!vars
<1> QED
  BY <1>1, <1>2, <1>3, <1>4, <1>5, <1>6, <1>7, <1>8, <1>9, <1>10, <1>11, <1>12
     DEF Next, CameraStep, Execution, Thread

\* For any number of batches and crashes, and whatever system calls and
\* modules do, the processing implements BatchService.
THEOREM BatchRefinement == Spec => ImplementsService
<1>1. Init => Service!Init
  BY BatchInitRefines
<1>2. IInv /\ [Next]_vars => [Service!Next]_Service!vars
  BY BatchStepRefines
<1> QED
  BY <1>1, <1>2, BatchInvariance, PTL DEF Spec, Service!Spec, ImplementsService
=============================================================================
