----------------------------- MODULE PrimeRuntime -----------------------------
(***************************************************************************)
(* PrimeRuntimeAdapter, _KernelProcess and SharedBudget (prime_runtime.py) *)
(* with the child planner (prime_child_planner.py): the trusted parent     *)
(* runs one cell after another in a kernel it talks to over two pipes.     *)
(*                                                                         *)
(* A kernel has a reader thread, which queues the kernel's events for the  *)
(* parent and serves the kernel's host requests itself: a child run        *)
(* occupies it from the reservation to the reply.  A parent that times out *)
(* kills the kernel and goes on with a new one, and the reader of the old  *)
(* one may still be at its child.  Kernels and cells are numbered.  Time   *)
(* is abstracted: a timeout may come at any moment of a wait.              *)
(***************************************************************************)
EXTENDS Naturals, FiniteSets, Sequences, SequencesExt, FiniteSetsExt

CONSTANTS
  NumCells,       \* bound on the cells the parent executes
  MaxAsks,        \* bound on the model calls of the parent itself
  MaxPending,     \* max_pending_events of the queue
  MaxPipe,        \* bound on the frames the pipe holds unread
  MaxChildRuns,   \* max_child_runs of the budget
  TokenCap,       \* max_model_tokens
  CallTokens,     \* the usage a model call can report
  Sizes,          \* the sizes of the artifacts
  MaxArtifactBytes

ASSUME PrimeAssumption ==
  /\ NumCells \in Nat \ {0} /\ MaxAsks \in Nat /\ MaxPending \in Nat \ {0}
  /\ MaxPipe \in Nat \ {0} /\ MaxChildRuns \in Nat /\ TokenCap \in Nat \ {0}
  /\ CallTokens \subseteq Nat \ {0} /\ CallTokens # {} /\ IsFiniteSet(CallTokens)
  /\ Sizes \subseteq Nat \ {0} /\ MaxArtifactBytes \in Nat

Kernels == 1 .. NumCells   \* each is started for a cell

VARIABLES
  pc,        \* the parent: "idle", "asking", "ready", "waiting", "interrupting",
             \* "closed"
  cell,      \* its current or last cell
  kernel,    \* the last kernel it started, 0 before the first
  work,      \* what the cells ask of the host: "child" runs or "upload"s
  alive,     \* kernel -> "none", "up", "exited" by itself, "killed" by the host
  running,   \* kernel -> the cell whose code it runs, 0 if none
  said,      \* kernel -> whether its cell has printed
  pipe,      \* kernel -> frames not yet read
  reader,    \* kernel -> what its reader thread does
  events,    \* kernel -> the queue of pending events
  cancelled, \* cancel_event of the budget
  childRuns, \* child_runs_used
  tokens,    \* model_tokens_used
  blocked,   \* cost_accounting_blocked
  asks,      \* model calls of the parent
  transfer,  \* the artifact transfer that is active
  stored     \* sizes of the artifacts stored; artifact_bytes is their sum

\* History: the receipts of the provider, the children whose code was started,
\* and the bytes of the artifacts in the store.
VARIABLES receipts, children, bytes

parent == <<pc, cell, kernel>>
kernels == <<alive, running, said, pipe>>
budget == <<cancelled, childRuns, tokens, blocked, asks>>
artifacts == <<work, transfer, stored, bytes>>
vars == <<parent, kernels, reader, events, budget, artifacts, receipts, children>>

NoTransfer == [owner |-> 0, size |-> 0, full |-> FALSE]

Init ==
  /\ pc = "idle"
  /\ cell = 0
  /\ kernel = 0
  /\ work \in {"child", "upload"}
  /\ alive = [k \in Kernels |-> "none"]
  /\ running = [k \in Kernels |-> 0]
  /\ said = [k \in Kernels |-> FALSE]
  /\ pipe = [k \in Kernels |-> <<>>]
  /\ reader = [k \in Kernels |-> "none"]
  /\ events = [k \in Kernels |-> <<>>]
  /\ cancelled = FALSE
  /\ childRuns = 0
  /\ tokens = 0
  /\ blocked = FALSE
  /\ asks = 0
  /\ transfer = NoTransfer
  /\ stored = {}
  /\ bytes = 0
  /\ receipts = 0
  /\ children = 0

Set(f, k, v) == [f EXCEPT ![k] = v]

-----------------------------------------------------------------------------
(***************************************************************************)
(* The kernel process.                                                     *)
(***************************************************************************)

Up(k) == alive[k] = "up"

\* No cell runs in the kernel any more.
Rest(k) ==
  /\ running' = Set(running, k, 0)
  /\ said' = Set(said, k, FALSE)

Emit(k, e) == pipe' = Set(pipe, k, Append(pipe[k], e))
CanEmit(k) == Up(k) /\ Len(pipe[k]) < MaxPipe

Output(k) ==
  /\ CanEmit(k)
  /\ running[k] # 0
  /\ ~said[k]
  /\ said' = Set(said, k, TRUE)
  /\ Emit(k, [kind |-> "stdout", id |-> running[k]])
  /\ UNCHANGED <<parent, alive, running, reader, events, budget, artifacts, receipts, children>>

\* A cell asks the host for a child run, and waits for the reply.
AskHost(k) ==
  /\ CanEmit(k)
  /\ running[k] # 0
  /\ work = "child"
  /\ reader[k] = "reading"
  /\ \A i \in DOMAIN pipe[k] : pipe[k][i].kind # "run"
  /\ Emit(k, [kind |-> "run", id |-> running[k]])
  /\ UNCHANGED <<parent, alive, running, said, reader, events, budget, artifacts, receipts, children>>

\* A cell ends, by itself or interrupted.  An interrupt obliges it to nothing.
FinishCell(k) ==
  /\ CanEmit(k)
  /\ running[k] # 0
  /\ Emit(k, [kind |-> "done", id |-> running[k]])
  /\ Rest(k)
  /\ UNCHANGED <<parent, alive, reader, events, budget, artifacts, receipts, children>>

\* A frame that is too long or no JSON.
Corrupt(k) ==
  /\ CanEmit(k)
  /\ running[k] # 0
  /\ Emit(k, [kind |-> "corrupt", id |-> 0])
  /\ UNCHANGED <<parent, alive, running, said, reader, events, budget, artifacts, receipts, children>>

\* The container ends, for lack of memory for instance.
Exit(k) ==
  /\ Up(k)
  /\ alive' = Set(alive, k, "exited")
  /\ Rest(k)
  /\ UNCHANGED <<parent, pipe, reader, events, budget, artifacts, receipts, children>>

\* kill: the container is removed and the pipes are closed.
KillKernel(k) ==
  /\ alive' = Set(alive, k, "killed")
  /\ Rest(k)
  /\ pipe' = Set(pipe, k, <<>>)

-----------------------------------------------------------------------------
(***************************************************************************)
(* The reader thread of a kernel.                                          *)
(***************************************************************************)

\* The oldest event makes room for the failure.
WithFatal(q) ==
  Append(IF Len(q) < MaxPending THEN q ELSE Tail(q), [kind |-> "fatal", id |-> 0])

ProtocolFailure(k) ==
  /\ KillKernel(k)
  /\ events' = Set(events, k, WithFatal(events[k]))
  /\ reader' = Set(reader, k, "gone")

(* _read_events: a host request occupies the reader, any other event is    *)
(* queued, and a corrupt frame or a full queue fails the protocol.         *)
Read(k) ==
  /\ reader[k] = "reading"
  /\ pipe[k] # <<>>
  /\ LET e == Head(pipe[k]) IN
     \/ /\ e.kind = "run"
        /\ reader' = Set(reader, k, "request")
        /\ pipe' = Set(pipe, k, Tail(pipe[k]))
        /\ UNCHANGED <<alive, running, said, events>>
     \/ /\ e.kind \in {"stdout", "done"}
        /\ Len(events[k]) < MaxPending
        /\ events' = Set(events, k, Append(events[k], e))
        /\ pipe' = Set(pipe, k, Tail(pipe[k]))
        /\ UNCHANGED <<alive, running, said, reader>>
     \/ /\ \/ e.kind = "corrupt"
           \/ e.kind \in {"stdout", "done"} /\ Len(events[k]) = MaxPending
        /\ ProtocolFailure(k)
  /\ UNCHANGED <<parent, budget, artifacts, receipts, children>>

ReadEOF(k) ==
  /\ reader[k] = "reading"
  /\ pipe[k] = <<>>
  /\ alive[k] \in {"exited", "killed"}
  /\ reader' = Set(reader, k, "gone")
  /\ UNCHANGED <<parent, kernels, events, budget, artifacts, receipts, children>>

(* Mutant: a planning that fails is refunded.                              *)
Reserve_Started(k) ==
  /\ reader[k] = "request"
  /\ IF cancelled \/ children >= MaxChildRuns
       THEN reader' = Set(reader, k, "reply") /\ UNCHANGED childRuns
       ELSE reader' = Set(reader, k, "plan") /\ childRuns' = childRuns + 1
  /\ UNCHANGED <<parent, kernels, events, cancelled, tokens, blocked, asks, artifacts, receipts, children>>

(* reserve_child, before the parent's model is paid for a plan: a planning *)
(* that fails is not refunded.                                             *)
Reserve(k) ==
  /\ reader[k] = "request"
  /\ IF cancelled \/ childRuns >= MaxChildRuns
       THEN reader' = Set(reader, k, "reply") /\ UNCHANGED childRuns
       ELSE reader' = Set(reader, k, "plan") /\ childRuns' = childRuns + 1
  /\ UNCHANGED <<parent, kernels, events, cancelled, tokens, blocked, asks, artifacts, receipts, children>>

\* Both model clients test the budget before each call.
MayCall == ~cancelled /\ tokens < TokenCap /\ ~blocked

Plan(k) ==
  /\ reader[k] = "plan"
  /\ reader' = Set(reader, k, IF MayCall THEN "called" ELSE "reply")
  /\ UNCHANGED <<parent, kernels, events, budget, artifacts, receipts, children>>

\* record_model_usage: a receipt is counted in full, whatever follows; one
\* whose cost is unknown blocks the ledger.
Record(n, known) ==
  /\ receipts' = receipts + n
  /\ tokens' = tokens + n
  /\ blocked' = (blocked \/ ~known)

(* The answer of the model: a plan, unless it is malformed or the receipt  *)
(* has exhausted the budget.                                               *)
ReceivePlan(k) ==
  /\ reader[k] = "called"
  /\ \E n \in CallTokens, known \in BOOLEAN :
       /\ Record(n, known)
       /\ \/ tokens' <= TokenCap /\ known /\ reader' = Set(reader, k, "start")
          \/ reader' = Set(reader, k, "reply")
  /\ UNCHANGED <<parent, kernels, events, cancelled, childRuns, asks, artifacts, children>>

(* The provider gives no answer, or none that carries a receipt.           *)
ModelFails(k) ==
  /\ reader[k] = "called"
  /\ reader' = Set(reader, k, "reply")
  /\ UNCHANGED <<parent, kernels, events, budget, artifacts, receipts, children>>

(* Mutant: the child has an event of its own.                              *)
StartChild_OwnEvent(k) ==
  /\ reader[k] = "start"
  /\ reader' = Set(reader, k, "child")
  /\ children' = children + 1
  /\ UNCHANGED <<parent, kernels, events, budget, artifacts, receipts>>

(* The child is an adapter of its own, which tests the shared event before *)
(* it sends the code.                                                      *)
StartChild(k) ==
  /\ reader[k] = "start"
  /\ IF cancelled
       THEN reader' = Set(reader, k, "reply") /\ UNCHANGED children
       ELSE reader' = Set(reader, k, "child") /\ children' = children + 1
  /\ UNCHANGED <<parent, kernels, events, budget, artifacts, receipts>>

EndChild(k) ==
  /\ reader[k] = "child"
  /\ reader' = Set(reader, k, "reply")
  /\ UNCHANGED <<parent, kernels, events, budget, artifacts, receipts, children>>

(* The reply of a kernel that is gone raises in the reader and ends it.    *)
Reply(k) ==
  /\ reader[k] = "reply"
  /\ reader' = Set(reader, k, IF Up(k) THEN "reading" ELSE "gone")
  /\ UNCHANGED <<parent, kernels, events, budget, artifacts, receipts, children>>

-----------------------------------------------------------------------------
(***************************************************************************)
(* The parent.                                                             *)
(***************************************************************************)

\* execute returns a result (which the model leaves out) or raises.
Return == pc' = "idle"

\* SharedLedgerModelClient.invoke, between two cells.
AskModel ==
  /\ pc = "idle"
  /\ asks < MaxAsks
  /\ MayCall
  /\ pc' = "asking"
  /\ asks' = asks + 1
  /\ UNCHANGED <<cell, kernel, kernels, reader, events, cancelled, childRuns, tokens, blocked, artifacts, receipts, children>>

ReceiveAnswer ==
  /\ pc = "asking"
  /\ pc' = "idle"
  /\ \E n \in CallTokens, known \in BOOLEAN : Record(n, known)
  /\ UNCHANGED <<cell, kernel, kernels, reader, events, cancelled, childRuns, asks, artifacts, children>>

Started == kernel \in Kernels /\ Up(kernel)

(* A kernel that ends while it starts is taken for ready, since its reader *)
(* sets the same event at the end of the pipe; the start can also raise.   *)
StartKernel ==
  /\ kernel' = kernel + 1
  /\ events' = [k \in Kernels |-> <<>>]   \* nobody reads the old queue
  /\ \/ /\ alive' = Set(alive, kernel + 1, "up")
        /\ reader' = Set(reader, kernel + 1, "reading")
        /\ pc' = "ready"
     \/ /\ alive' = Set(alive, kernel + 1, "exited")
        /\ reader' = Set(reader, kernel + 1, "gone")
        /\ pc' = "ready"
     \/ /\ alive' = Set(alive, kernel + 1, "killed")
        /\ pc' = "idle"
        /\ UNCHANGED reader

(* execute starts a kernel if there is none or it has ended.               *)
BeginCell ==
  /\ pc = "idle"
  /\ cell < NumCells
  /\ cell' = cell + 1
  /\ IF Started
       THEN pc' = "ready" /\ UNCHANGED <<kernel, alive, reader, events>>
       ELSE StartKernel
  /\ UNCHANGED <<running, said, pipe, budget, artifacts, receipts, children>>

\* close shuts the kernel down; the adapter starts none any more.
Close ==
  /\ pc = "idle"
  /\ pc' = "closed"
  /\ IF Started THEN KillKernel(kernel) ELSE UNCHANGED kernels
  /\ UNCHANGED <<cell, kernel, reader, events, budget, artifacts, receipts, children>>

\* A cell of a cancelled budget is not sent.
RefuseCell ==
  /\ pc = "ready"
  /\ cancelled
  /\ Return
  /\ UNCHANGED <<cell, kernel, kernels, reader, events, budget, artifacts, receipts, children>>

SendCell ==
  /\ pc = "ready"
  /\ ~cancelled
  /\ \/ /\ Up(kernel)
        /\ running' = Set(running, kernel, cell)
        /\ said' = Set(said, kernel, FALSE)
        /\ pc' = "waiting"
     \/ /\ ~Up(kernel)
        /\ Return
        /\ UNCHANGED <<running, said>>
  /\ UNCHANGED <<cell, kernel, alive, pipe, reader, events, budget, artifacts, receipts, children>>

\* Events of other cells are passed over; a failure has no cell.
Ours(e) == e.id \in {cell, 0}

(* Queue.get in execute.                                                   *)
GetEvent ==
  /\ pc = "waiting"
  /\ events[kernel] # <<>>
  /\ events' = Set(events, kernel, Tail(events[kernel]))
  /\ LET e == Head(events[kernel]) IN
     \/ /\ Ours(e) /\ e.kind = "done"
        /\ Return
     \/ /\ Ours(e) /\ e.kind = "fatal"
        /\ Return
     \/ /\ ~Ours(e) \/ e.kind = "stdout"
        /\ UNCHANGED pc
  /\ UNCHANGED <<cell, kernel, kernels, reader, budget, artifacts, receipts, children>>

\* An interrupt of a kernel the host has killed is dropped, one of a kernel
\* that has ended by itself raises an error of the pipe.
Interrupt ==
  /\ pc = "waiting"
  /\ \/ /\ alive[kernel] # "exited"
        /\ pc' = "interrupting"
     \/ /\ alive[kernel] = "exited"
        /\ Return
  /\ UNCHANGED <<cell, kernel, alive, running, said, pipe, reader, events, budget, artifacts, receipts, children>>

(* Another second for the interrupted cell: its output is dropped.         *)
CollectInterrupted ==
  /\ pc = "interrupting"
  /\ events[kernel] # <<>>
  /\ events' = Set(events, kernel, Tail(events[kernel]))
  /\ LET e == Head(events[kernel]) IN
     IF Ours(e) /\ e.kind = "done" THEN Return ELSE UNCHANGED pc
  /\ UNCHANGED <<cell, kernel, kernels, reader, budget, artifacts, receipts, children>>

(* Mutant: the kernel is kept.                                             *)
GiveUp_KeepKernel ==
  /\ pc = "interrupting"
  /\ Return
  /\ UNCHANGED <<cell, kernel, kernels, reader, events, budget, artifacts, receipts, children>>

(* Mutant: an interrupted kernel is waited for as long as it is up.        *)
GiveUp_WhenDown ==
  /\ pc = "interrupting"
  /\ ~Up(kernel)
  /\ Return
  /\ UNCHANGED <<cell, kernel, kernels, reader, events, budget, artifacts, receipts, children>>

(* Then the kernel is killed.                                              *)
GiveUp ==
  /\ pc = "interrupting"
  /\ KillKernel(kernel)
  /\ Return
  /\ UNCHANGED <<cell, kernel, reader, events, budget, artifacts, receipts, children>>

\* Somebody cancels the run; the watcher of the running cell interrupts it,
\* which does not bind the kernel.
Cancel ==
  /\ ~cancelled
  /\ cancelled' = TRUE
  /\ UNCHANGED <<parent, alive, running, said, pipe, reader, events, childRuns, tokens, blocked, asks, artifacts, receipts, children>>

-----------------------------------------------------------------------------
(***************************************************************************)
(* Artifacts: a cell uploads one in chunks, by host requests.              *)
(***************************************************************************)

Uploads(k) == work = "upload" /\ Up(k) /\ running[k] # 0 /\ reader[k] = "reading" /\ pipe[k] = <<>>

BeginTransfer(k) ==
  /\ Uploads(k)
  /\ transfer = NoTransfer
  /\ \E n \in Sizes : transfer' = [owner |-> k, size |-> n, full |-> FALSE]
  /\ UNCHANGED <<parent, kernels, reader, events, budget, work, stored, bytes, receipts, children>>

LastChunk(k) ==
  /\ Uploads(k)
  /\ transfer.owner = k
  /\ transfer' = [transfer EXCEPT !.full = TRUE]
  /\ UNCHANGED <<parent, kernels, reader, events, budget, work, stored, bytes, receipts, children>>

AbortTransfer(k) ==
  /\ Uploads(k)
  /\ transfer.owner = k
  /\ transfer' = NoTransfer
  /\ UNCHANGED <<parent, kernels, reader, events, budget, work, stored, bytes, receipts, children>>

\* The bytes are counted before the file is written, and taken back.
Counted(n, written) == IF written THEN bytes + n ELSE bytes

(* The transfer is over when its digest was compared.  An artifact that is *)
(* stored already costs nothing, one above the limit is refused, and the   *)
(* write can fail.                                                         *)
FinishTransfer(k) ==
  /\ Uploads(k)
  /\ transfer.owner = k
  /\ transfer.full
  /\ transfer' = NoTransfer
  /\ LET n == transfer.size IN
     \/ /\ n \in stored \/ bytes + n > MaxArtifactBytes
        /\ UNCHANGED <<stored, bytes>>
     \/ /\ n \notin stored
        /\ bytes + n <= MaxArtifactBytes
        /\ \E written \in BOOLEAN :
             /\ bytes' = Counted(n, written)
             /\ stored' = IF written THEN stored \cup {n} ELSE stored
  /\ UNCHANGED <<parent, kernels, reader, events, budget, work, receipts, children>>

-----------------------------------------------------------------------------
Kernel(k) == Output(k) \/ AskHost(k) \/ FinishCell(k) \/ Corrupt(k) \/ Exit(k)

ReaderStep(k) ==
  \/ Read(k)    \/ ReadEOF(k)     \/ Reserve(k)    \/ Plan(k) \/ ReceivePlan(k)
  \/ ModelFails(k) \/ StartChild(k) \/ EndChild(k) \/ Reply(k)

Upload(k) ==
  \/ BeginTransfer(k) \/ LastChunk(k) \/ AbortTransfer(k) \/ FinishTransfer(k)

ParentStep ==
  \/ ReceiveAnswer \/ RefuseCell \/ SendCell \/ GetEvent \/ Interrupt
  \/ CollectInterrupted \/ GiveUp

Next ==
  \/ \E k \in Kernels : Kernel(k) \/ ReaderStep(k) \/ Upload(k)
  \/ ParentStep \/ AskModel \/ BeginCell \/ Close \/ Cancel

\* The parent's waits have deadlines.  Nothing is assumed of a kernel or of the
\* providers its reader waits for.
Spec == Init /\ [][Next]_vars /\ WF_vars(ParentStep)

-----------------------------------------------------------------------------
(***************************************************************************)
(* Properties.                                                             *)
(***************************************************************************)

(* The variables are well formed and the queue keeps its limit.            *)
TypeOK ==
  /\ pc \in {"idle", "asking", "ready", "waiting", "interrupting", "closed"}
  /\ cell \in 0 .. NumCells /\ kernel \in 0 .. cell
  /\ alive \in [Kernels -> {"none", "up", "exited", "killed"}]
  /\ running \in [Kernels -> 0 .. NumCells]
  /\ \A k \in Kernels : Len(events[k]) <= MaxPending /\ Len(pipe[k]) <= MaxPipe
  /\ reader \in [Kernels -> {"none", "reading", "request", "plan", "called", "start",
                             "child", "reply", "gone"}]
  /\ transfer.owner \in {0} \cup Kernels

(***************************************************************************)
(* Code of a cell runs only while the parent is inside execute for it: no  *)
(* timeout, interrupt or failure leaves a kernel at work that the next     *)
(* cell would share.                                                       *)
(***************************************************************************)
CodeRunsInsideExecute ==
  \A k \in Kernels : running[k] # 0 =>
    k = kernel /\ running[k] = cell /\ pc \in {"waiting", "interrupting"}

(***************************************************************************)
(* A protocol failure reaches the parent that waits for the kernel: the    *)
(* full queue that caused it does not swallow it.                          *)
(***************************************************************************)
FailureReachesParent ==
  pc = "waiting" /\ alive[kernel] = "killed" =>
    \E i \in DOMAIN events[kernel] : events[kernel][i].kind = "fatal"

(***************************************************************************)
(* What a kernel does is contained in one execute, and so are its          *)
(* failures.                                                               *)
(***************************************************************************)
KernelIsContained == TypeOK /\ CodeRunsInsideExecute /\ FailureReachesParent

(***************************************************************************)
(* The readers of an abandoned kernel and of its successor together start  *)
(* no more children, and pay for no more plans, than the budget allows.    *)
(***************************************************************************)
Planning == {k \in Kernels : reader[k] \in {"plan", "called", "start"}}

ChildrenWithinBudget == children + Cardinality(Planning) <= MaxChildRuns

(***************************************************************************)
(* Every receipt of the provider is in the ledger, and the ledger exceeds  *)
(* the cap by no more than the calls that can be in flight together.       *)
(***************************************************************************)
NothingPaidIsLost == tokens = receipts

OverspendIsBounded ==
  tokens < TokenCap + (1 + MaxChildRuns) * Max(CallTokens)

(***************************************************************************)
(* The bytes counted against the limit are those of the artifacts stored,  *)
(* whatever writes failed, and stay below it.                              *)
(***************************************************************************)
BytesAreOfStored ==
  bytes = SumSet(stored) /\ bytes <= MaxArtifactBytes

(***************************************************************************)
(* The shared budget of children, tokens and bytes holds over the parent   *)
(* and all readers, and is what was really spent.                          *)
(***************************************************************************)
BudgetHolds ==
  ChildrenWithinBudget /\ NothingPaidIsLost /\ OverspendIsBounded /\ BytesAreOfStored

(***************************************************************************)
(* After a cancellation no cell is sent, no plan is paid for and no child  *)
(* is started.                                                             *)
(***************************************************************************)
CancelStopsStarts ==
  [][cancelled => /\ children' = children
                  /\ \A k \in Kernels : running'[k] \in {0, running[k]}
                  /\ \A k \in Kernels : reader'[k] = "called" => reader[k] = "called"]_vars

(***************************************************************************)
(* execute always returns, whatever the kernel does.                       *)
(***************************************************************************)
ExecuteReturns == pc \in {"ready", "waiting", "interrupting"} ~> pc = "idle"
=============================================================================
