--------------------------- MODULE OSProcessHandler ---------------------------
(***************************************************************************)
(* codeOrchestra.colt.core.execution.OSProcessHandler: a ProcessHandler for *)
(* an operating-system process.  A pooled thread (ProcessWaitFor) waits for *)
(* the process, then for the callback that startNotify leaves in a queue of *)
(* capacity one; the callback ends the two threads that read the output and *)
(* reports the termination.  Detaching is done by another pooled thread,    *)
(* which cancels the waiting one.                                           *)
(*                                                                         *)
(* The steps of ProcessHandler are those of the threads in Threads; the     *)
(* hooks of the subclass are added here to the actions they belong to.      *)
(***************************************************************************)
EXTENDS ProcessHandler

CONSTANTS Starter,    \* the thread that calls startNotify
          Clients,    \* the threads that destroy, detach and wait
          Waiter,     \* the pooled thread of ProcessWaitFor
          Detacher,   \* the pooled thread of detachProcessImpl
          Readers,    \* the ReadProcessThreads for stdout and stderr
          MaxOutput,  \* bound: chunks of output the process writes to each
          MayShutdown \* may OSProcessHandler.dispose() be called?

ASSUME RolesAssumption ==
  /\ Threads = Clients \cup {Starter, Waiter, Detacher}
  /\ Starter # Waiter /\ Starter # Detacher /\ Waiter # Detacher
  /\ {Starter, Waiter, Detacher} \cap Clients = {}
ASSUME OutputAssumption == MaxOutput \in Nat /\ MayShutdown \in BOOLEAN

VARIABLES
  process,     \* the external process: "alive" or "exited"
  destroyed,   \* has Process.destroy() been called?
  shutdown,    \* has the pool been shut down?
  waiter,      \* where the thread of ProcessWaitFor is
  interrupted, \* the interrupt flag of that thread
  exitCode,    \* the exitCode of that thread: "real", or the initial 0
  callback,    \* myTerminationCallback: "none", "set", "taken"
  reader,      \* each ReadProcessThread: "none", "running", "done"
  told,        \* myIsProcessTerminated of each
  written,     \* chunks written by the process to each stream
  heard,       \* chunks listeners were told of
  detacher,    \* the Runnable of detachProcessImpl: "none", "queued", "cancelled"
  endedBy,     \* history: whose notifyTerminated announced the end
  textAfterEnd \* history: was text announced after the end?

osvars == <<process, destroyed, shutdown, waiter, interrupted, exitCode,
            callback, reader, told, written, heard, detacher, endedBy,
            textAfterEnd>>
vars == <<hvars, osvars>>

Nobody == "nobody"

OSTypeOK ==
  /\ TypeOK
  /\ process \in {"alive", "exited"}
  /\ {destroyed, shutdown, interrupted, textAfterEnd} \subseteq BOOLEAN
  /\ waiter \in {"queued", "waitFor", "take", "tell", "join", "notify", "lost"}
  /\ exitCode \in {"zero", "real"}
  /\ callback \in {"none", "set", "taken"}
  /\ reader \in [Readers -> {"none", "running", "done"}]
  /\ told \in [Readers -> BOOLEAN]
  /\ written \in [Readers -> 0..MaxOutput]
  /\ \A r \in Readers : heard[r] \in 0..written[r]
  /\ detacher \in {"none", "queued", "cancelled"}
  /\ endedBy \in Threads \cup {Nobody}

OSInit ==
  /\ Init
  /\ process = "alive"
  /\ destroyed = FALSE
  /\ shutdown = FALSE
  /\ waiter = "queued"
  /\ interrupted = FALSE
  /\ exitCode = "zero"
  /\ callback = "none"
  /\ reader = [r \in Readers |-> "none"]
  /\ told = [r \in Readers |-> FALSE]
  /\ written = [r \in Readers |-> 0]
  /\ heard = [r \in Readers |-> 0]
  /\ detacher = "none"
  /\ endedBy = Nobody
  /\ textAfterEnd = FALSE

(***************************************************************************)
(* The hooks.                                                              *)
(***************************************************************************)

(* startNotified of the listener that startNotify adds: submit the readers  *)
(* and leave the callback; a pool that is shut down rejects the first       *)
(* submission, and nothing of this happens.                                 *)
OSStartObservers(p) ==
  /\ StartObservers(p)
  /\ IF shutdown
     THEN UNCHANGED <<reader, callback>>
     ELSE /\ reader' = [r \in Readers |-> "running"]
          /\ callback' = "set"
  /\ UNCHANGED <<process, destroyed, shutdown, waiter, interrupted, exitCode,
                 told, written, heard, detacher, endedBy, textAfterEnd>>

Destroys(p) == call[Head(todo[p])] = "destroyProcess"

(* destroyProcessImpl: close stdin, Process.destroy() *)
DestroyProcessImpl(p) ==
  /\ pc[p] = "impl" /\ Destroys(p)
  /\ Impl(p)
  /\ destroyed' = TRUE
  /\ UNCHANGED <<process, shutdown, waiter, interrupted, exitCode, callback,
                 reader, told, written, heard, detacher, endedBy, textAfterEnd>>

(* detachProcessImpl: hand the detaching to the pool, which may reject it. *)
DetachProcessImpl(p) ==
  /\ pc[p] = "impl" /\ ~Destroys(p)
  /\ IF shutdown
     THEN ImplThrows(p) /\ UNCHANGED detacher
     ELSE Impl(p) /\ detacher' = "queued"
  /\ UNCHANGED <<process, destroyed, shutdown, waiter, interrupted, exitCode,
                 callback, reader, told, written, heard, endedBy, textAfterEnd>>

OSFireTerminated(p) ==
  /\ FireTerminated(p)
  /\ endedBy' = Head(todo[p])
  /\ UNCHANGED <<process, destroyed, shutdown, waiter, interrupted, exitCode,
                 callback, reader, told, written, heard, detacher, textAfterEnd>>

(* The steps of ProcessHandler the subclass does not add to. *)
PlainStep(p) ==
  /\ \/ StartNotify(p) \/ Execute(p) \/ AddPending(p) \/ Recheck(p)
     \/ TakePending(p) \/ BeginTermination(p) \/ FireWillTerminate(p)
     \/ Terminate(p) \/ ReleaseWaiters(p) \/ WaitFor(p)
  /\ UNCHANGED osvars

OSStep(p) == \/ PlainStep(p) \/ OSStartObservers(p) \/ DestroyProcessImpl(p)
             \/ DetachProcessImpl(p) \/ OSFireTerminated(p)

(***************************************************************************)
(* The thread of ProcessWaitFor.                                           *)
(***************************************************************************)
WaiterStarts ==
  /\ waiter = "queued"
  /\ waiter' = "waitFor"
  /\ UNCHANGED <<hvars, process, destroyed, shutdown, interrupted, exitCode,
                 callback, reader, told, written, heard, detacher, endedBy,
                 textAfterEnd>>

(* process.waitFor(): returns when the process has exited, an interrupt      *)
(* ends it before that.  Either way the callback is taken next.             *)
WaitForProcess ==
  /\ waiter = "waitFor"
  /\ \/ process = "exited" /\ exitCode' = "real" /\ UNCHANGED interrupted
     \/ process = "alive" /\ interrupted /\ interrupted' = FALSE /\ UNCHANGED exitCode
  /\ waiter' = "take"
  /\ UNCHANGED <<hvars, process, destroyed, shutdown, callback, reader, told,
                 written, heard, detacher, endedBy, textAfterEnd>>

(* myTerminationCallback.take(): an interrupt loses the callback. *)
TakeCallback ==
  /\ waiter = "take"
  /\ IF interrupted
     THEN waiter' = "lost" /\ interrupted' = FALSE /\ UNCHANGED callback
     ELSE /\ callback = "set"
          /\ waiter' = "tell"
          /\ callback' = "taken"
          /\ UNCHANGED interrupted
  /\ UNCHANGED <<hvars, process, destroyed, shutdown, exitCode, reader, told,
                 written, heard, detacher, endedBy, textAfterEnd>>

(* Variants: the readers are not told; their ends are not awaited. *)
TellNobody ==
  /\ waiter = "tell"
  /\ waiter' = "join"
  /\ UNCHANGED <<hvars, process, destroyed, shutdown, interrupted, exitCode,
                 callback, reader, told, written, heard, detacher, endedBy,
                 textAfterEnd>>

JoinNobody ==
  /\ waiter = "join"
  /\ waiter' = "notify"
  /\ UNCHANGED <<hvars, process, destroyed, shutdown, interrupted, exitCode,
                 callback, reader, told, written, heard, detacher, endedBy,
                 textAfterEnd>>

(* The callback: tell the readers that the process is terminated, *)
TellReaders ==
  /\ waiter = "tell"
  /\ told' = [r \in Readers |-> TRUE]
  /\ waiter' = "join"
  /\ UNCHANGED <<hvars, process, destroyed, shutdown, interrupted, exitCode,
                 callback, reader, written, heard, detacher, endedBy,
                 textAfterEnd>>

(* wait for their futures, unless interrupted, *)
JoinReaders ==
  /\ waiter = "join"
  /\ interrupted \/ \A r \in Readers : reader[r] = "done"
  /\ interrupted' = FALSE
  /\ waiter' = "notify"
  /\ UNCHANGED <<hvars, process, destroyed, shutdown, exitCode, callback,
                 reader, told, written, heard, detacher, endedBy, textAfterEnd>>

(* and call notifyProcessTerminated. *)
NotifyProcessTerminated ==
  /\ waiter = "notify"
  /\ Call(Waiter, "notifyTerminated")
  /\ UNCHANGED osvars

WaiterStep == \/ WaiterStarts \/ WaitForProcess \/ TakeCallback \/ TellReaders
              \/ JoinReaders \/ NotifyProcessTerminated

(***************************************************************************)
(* The Runnable of detachProcessImpl.                                      *)
(***************************************************************************)

(* myWaitForThreadFuture.cancel(true): a future that has not begun never     *)
(* runs, one that is running is interrupted, a finished one is left alone.  *)
Detach ==
  /\ detacher = "queued"
  /\ detacher' = "cancelled"
  /\ IF waiter = "queued"
     THEN waiter' = "lost" /\ UNCHANGED interrupted
     ELSE /\ interrupted' = (waiter # "lost")
          /\ UNCHANGED waiter
  /\ UNCHANGED <<hvars, process, destroyed, shutdown, exitCode, callback,
                 reader, told, written, heard, endedBy, textAfterEnd>>

NotifyProcessDetached ==
  /\ detacher = "cancelled"
  /\ Call(Detacher, "notifyTerminated")
  /\ UNCHANGED osvars

DetacherStep == Detach \/ NotifyProcessDetached

(***************************************************************************)
(* The readers and the world.                                              *)
(***************************************************************************)

(* readAvailable: announce what there is to read; end if told before.  It    *)
(* excludes setProcessTerminated, both are synchronized.                    *)
ReadAvailable(r) ==
  /\ reader[r] = "running"
  /\ heard' = [heard EXCEPT ![r] = written[r]]
  /\ textAfterEnd' = (textAfterEnd \/
       (heard[r] < written[r] /\ announced["terminated"] > 0))
  /\ reader' = IF told[r] THEN [reader EXCEPT ![r] = "done"] ELSE reader
  /\ UNCHANGED <<hvars, process, destroyed, shutdown, waiter, interrupted,
                 exitCode, callback, told, written, detacher, endedBy>>

(* Process.destroy() closes the streams: an IOException ends the reader. *)
ReaderFails(r) ==
  /\ reader[r] = "running"
  /\ destroyed
  /\ reader' = [reader EXCEPT ![r] = "done"]
  /\ UNCHANGED <<hvars, process, destroyed, shutdown, waiter, interrupted,
                 exitCode, callback, told, written, heard, detacher, endedBy,
                 textAfterEnd>>

ProcessWrites(r) ==
  /\ process = "alive"
  /\ written[r] < MaxOutput
  /\ written' = [written EXCEPT ![r] = @ + 1]
  /\ UNCHANGED <<hvars, process, destroyed, shutdown, waiter, interrupted,
                 exitCode, callback, reader, told, heard, detacher, endedBy,
                 textAfterEnd>>

ProcessExits ==
  /\ process = "alive"
  /\ process' = "exited"
  /\ UNCHANGED <<hvars, destroyed, shutdown, waiter, interrupted, exitCode,
                 callback, reader, told, written, heard, detacher, endedBy,
                 textAfterEnd>>

(* OSProcessHandler.dispose(): the pool takes no further Runnables. *)
Dispose ==
  /\ MayShutdown
  /\ ~shutdown
  /\ shutdown' = TRUE
  /\ UNCHANGED <<hvars, process, destroyed, waiter, interrupted, exitCode,
                 callback, reader, told, written, heard, detacher, endedBy,
                 textAfterEnd>>

ClientCall ==
  /\ \/ Call(Starter, "startNotify")
     \/ \E p \in Clients, m \in {"destroyProcess", "detachProcess", "waitFor"} :
          Call(p, m)
  /\ UNCHANGED osvars

ClientInterrupted ==
  /\ \E p \in Clients : WaitInterrupted(p)
  /\ UNCHANGED osvars

OSNext ==
  \/ \E p \in Threads : OSStep(p)
  \/ ClientCall \/ ClientInterrupted
  \/ WaiterStep \/ DetacherStep
  \/ \E r \in Readers : ReadAvailable(r) \/ ReaderFails(r) \/ ProcessWrites(r)
  \/ ProcessExits \/ Dispose

OSSpec == OSInit /\ [][OSNext]_vars

(* Threads are scheduled; nothing is assumed of clients or of the process. *)
OSFairSpec ==
  /\ OSSpec
  /\ \A p \in Threads : WF_vars(OSStep(p))
  /\ WF_vars(WaiterStep)
  /\ WF_vars(DetacherStep)
  /\ \A r \in Readers : WF_vars(ReadAvailable(r))

(***************************************************************************)
(* Correctness.                                                            *)
(***************************************************************************)
Detached == detacher # "none"

(* A process that was neither destroyed nor detached is announced to have    *)
(* terminated after the last of its output was announced.                   *)
NoOutputLost ==
  announced["terminated"] = 1 /\ ~destroyed /\ ~Detached =>
    process = "exited" /\ \A r \in Readers : heard[r] = written[r]

(* Only a detached process is heard of after its termination. *)
SilenceAfterEnd == textAfterEnd => Detached

(* The exit code announced is that of the process unless it was detached. *)
ExitCodeIsReal ==
  announced["terminated"] = 1 /\ ~Detached =>
    endedBy = Waiter /\ exitCode = "real"

(* The exit of a started process reaches every thread in waitFor(): no       *)
(* interleaving of exit, start, destroy and detach loses the termination,   *)
(* as long as the pool is not shut down.                                    *)
ExitIsAnnounced ==
  process = "exited" /\ isStartNotified ~> count = 0

(* Detaching releases the waiters though the process lives on. *)
DetachReleases == Detached ~> count = 0

(* The readers of an exited process end, except when detaching interrupts    *)
(* the waiting thread before it has taken the callback: then nobody tells    *)
(* them, and they poll for ever.                                            *)
ReadersEnd ==
  \A r \in Readers :
    process = "exited" /\ reader[r] = "running" ~>
      reader[r] = "done" \/ waiter = "lost"

(* What is heard of an operating-system process is true, and in time. *)
OutputIsSound == OSTypeOK /\ NoOutputLost /\ SilenceAfterEnd /\ ExitCodeIsReal

(* The end of a process, or its being detached, reaches everybody.  *)
EndReachesEverybody == ExitIsAnnounced /\ DetachReleases /\ ReadersEnd

===============================================================================
