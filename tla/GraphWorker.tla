----------------------------- MODULE GraphWorker -----------------------------
(***************************************************************************)
(* The worker threads of GraphZeppelin and the calls that start, pause,    *)
(* resume and stop them (src/graph_worker.cpp), together with the parts    *)
(* of Graph that drive those calls: update, batch_update, the frame of a   *)
(* query (connected_components and point_query), write_binary and the      *)
(* destructor (src/graph.cpp, include/graph.h).                            *)
(*                                                                         *)
(* One thread, "main", is the client of the Graph.  Every other thread     *)
(* runs GraphWorker::do_work.  The guttering system and its work queue     *)
(* are an external library: a gutter holds updates that were inserted,     *)
(* and the queue holds DataNodes, each a set of updates.  An element of    *)
(* Updates is one gts->insert, half of an edge update.                     *)
(*                                                                         *)
(* pause_workers and unpause_workers wait with wait_for and a timeout of   *)
(* 500 ms, so they look at thr_paused again and again whatever the         *)
(* notifications do: their loops are a guard here.  The workers wait       *)
(* without a timeout, so for them the condition variable is modelled:      *)
(* the predicate is evaluated in one step and the thread starts to wait    *)
(* in a later one, and only a notification in between two steps where it   *)
(* waits (or a spurious wake-up) wakes it.                                 *)
(***************************************************************************)
EXTENDS Naturals, FiniteSets

CONSTANTS
  Workers,          \* the GraphWorkers, num_groups of them
  Updates,          \* the gts->insert calls the client may make
  Free,             \* the value of pause_lock when no worker owns it
  QueueLen,         \* DataNodes of the work queue (external bound)
  MaxSpurious,      \* bound on spurious wake-ups of pause_condition
  UpdateAfterSave   \* may the client update between write_binary and the
                    \* next query that resumes the workers?

ASSUME WorkersAssumption == Workers # {} /\ Free \notin Workers
ASSUME BoundsAssumption ==
  /\ QueueLen \in Nat \ {0}
  /\ MaxSpurious \in Nat
  /\ UpdateAfterSave \in BOOLEAN

VARIABLES
  paused, shutdown,   \* static flags of GraphWorker
  thr_paused,         \* [Workers -> BOOLEAN]
  pause_lock,         \* owner of the mutex, or Free
  wpc,                \* control state of each worker in do_work
  hold,               \* updates of its DataNode a worker has yet to apply
  non_block,          \* gts->set_non_block
  gutter, queue,      \* the guttering system and its work queue
  update_locked,      \* Graph::update_locked
  freed,              \* the destructor has freed the supernodes
  mpc, op,            \* control state of the client thread, current call
  inserted, applied,  \* history: inserted updates; what the sketches hold
  synced,             \* history: the updates covered by the last query
  spurious            \* spurious wake-ups so far

flagVars  == <<paused, shutdown, non_block>>
waitVars  == <<thr_paused, pause_lock, spurious>>
dataVars  == <<gutter, queue, hold, applied>>
graphVars == <<update_locked, freed>>
mainVars  == <<mpc, op, inserted, synced>>
vars == <<flagVars, waitVars, wpc, dataVars, graphVars, mainVars>>

(***************************************************************************)
(* Control states.  A worker in Pausing has said that it is paused.        *)
(***************************************************************************)
Working == {"get_data", "batch", "delta", "shutdown?", "paused?", "lock",
            "notify", "exited", "terminated", "crashed"}
Pausing == {"pred", "block", "waiting", "relock", "leave"}

\* The client is inside a call that reads or changes the supernodes.
Reading == {"boruvka", "querying", "reset", "saving"}
MainPC  == {"user", "push", "flush", "set_paused", "pause_nb", "pausing",
            "unpause_nb", "unpause", "notify", "unpausing", "free",
            "set_shutdown", "stop_nb", "stop_notify", "joining", "closed"}
           \cup Reading
Ops == {"none", "cont", "final", "save"}

\* pause_condition.notify_all: every waiting worker goes for the mutex.
Notified(pcs) == [w \in Workers |->
                    IF pcs[w] = "waiting" THEN "relock" ELSE pcs[w]]

\* A DataNode belongs to a worker from get_data to get_data_callback.
NodesInUse == {w \in Workers : wpc[w] \in {"batch", "delta"}}
QueueHasRoom == Cardinality(queue) + Cardinality(NodesInUse) < QueueLen

-----------------------------------------------------------------------------
\* Mutant: the loop makes one worker too many.
start_workers_OneMore ==
  /\ shutdown' = FALSE
  /\ paused' = FALSE
  /\ thr_paused' = [w \in Workers \cup {Free} |-> FALSE]
  /\ wpc' = [w \in Workers \cup {Free} |-> "get_data"]

(***************************************************************************)
(* Graph::Graph and GraphWorker::start_workers: every static flag that the *)
(* last Graph left behind is set again.  open_graph is mpc # "closed": a   *)
(* constructor called while it is set throws MultipleGraphsException       *)
(* before it changes anything, which is no step.                           *)
(***************************************************************************)
start_workers ==
  /\ shutdown' = FALSE
  /\ paused' = FALSE
  /\ thr_paused' = [w \in Workers |-> FALSE]
  /\ wpc' = [w \in Workers |-> "get_data"]

Init ==
  /\ paused = FALSE /\ shutdown = FALSE /\ non_block = FALSE
  /\ thr_paused = [w \in Workers |-> FALSE]
  /\ pause_lock = Free
  /\ wpc = [w \in Workers |-> "get_data"]
  /\ hold = [w \in Workers |-> {}]
  /\ gutter = {} /\ queue = {} /\ applied = {} /\ inserted = {} /\ synced = {}
  /\ update_locked = FALSE /\ freed = FALSE
  /\ mpc = "user" /\ op = "none"
  /\ spurious = 0

Construct ==
  /\ mpc = "closed"
  /\ mpc' = "user"
  /\ start_workers
  /\ non_block' = FALSE
  /\ update_locked' = FALSE /\ freed' = FALSE
  /\ gutter' = {} /\ queue' = {} /\ applied' = {}
  /\ hold' = [w \in Workers |-> {}]
  /\ inserted' = {} /\ synced' = {}
  /\ UNCHANGED <<pause_lock, spurious, op>>

-----------------------------------------------------------------------------
(***************************************************************************)
(* The worker threads: GraphWorker::do_work.                               *)
(***************************************************************************)
Goto(w, pc) == wpc' = [wpc EXCEPT ![w] = pc]

\* Mutant: the DataNode stays in the queue.
GetData_Peek(w) ==
  /\ wpc[w] = "get_data"
  /\ \E node \in queue : hold' = [hold EXCEPT ![w] = node]
  /\ Goto(w, "batch")
  /\ UNCHANGED <<flagVars, waitVars, gutter, queue, applied, graphVars, mainVars>>

\* gts->get_data hands out a DataNode ...
GetData(w) ==
  /\ wpc[w] = "get_data"
  /\ \E node \in queue :
       /\ queue' = queue \ {node}
       /\ hold' = [hold EXCEPT ![w] = node]
  /\ Goto(w, "batch")
  /\ UNCHANGED <<flagVars, waitVars, gutter, applied, graphVars, mainVars>>

\* Mutant: in non-blocking mode the queue is not looked at.
GetNothing_Unchecked(w) ==
  /\ wpc[w] = "get_data"
  /\ non_block
  /\ Goto(w, "shutdown?")
  /\ UNCHANGED <<flagVars, waitVars, dataVars, graphVars, mainVars>>

\* ... or, when the queue is empty and set to non-blocking, returns false.
GetNothing(w) ==
  /\ wpc[w] = "get_data"
  /\ queue = {} /\ non_block
  /\ Goto(w, "shutdown?")
  /\ UNCHANGED <<flagVars, waitVars, dataVars, graphVars, mainVars>>

\* batch_update starts by reading update_locked; its exception leaves the
\* thread function, so std::terminate ends the process.
BatchUpdate(w) ==
  /\ wpc[w] = "batch" /\ hold[w] # {}
  /\ Goto(w, IF update_locked THEN "terminated" ELSE "delta")
  /\ UNCHANGED <<flagVars, waitVars, dataVars, graphVars, mainVars>>

\* batch_update ends by adding the delta to the supernode.  Once the
\* supernodes are freed the write is undefined behaviour: either it lands in
\* memory that nobody reads and the worker goes on ...
ApplyDelta(w) ==
  /\ wpc[w] = "delta"
  /\ \E u \in hold[w] :
       /\ applied' = applied \cup {u}
       /\ hold' = [hold EXCEPT ![w] = @ \ {u}]
  /\ Goto(w, "batch")
  /\ UNCHANGED <<flagVars, waitVars, gutter, queue, graphVars, mainVars>>

\* ... or it ends the process.
WriteFreed(w) ==
  /\ wpc[w] = "delta" /\ freed
  /\ Goto(w, "crashed")
  /\ UNCHANGED <<flagVars, waitVars, dataVars, graphVars, mainVars>>

GetDataCallback(w) ==
  /\ wpc[w] = "batch" /\ hold[w] = {}
  /\ Goto(w, "get_data")
  /\ UNCHANGED <<flagVars, waitVars, dataVars, graphVars, mainVars>>

TestShutdown(w) ==
  /\ wpc[w] = "shutdown?"
  /\ Goto(w, IF shutdown THEN "exited" ELSE "paused?")
  /\ UNCHANGED <<flagVars, waitVars, dataVars, graphVars, mainVars>>

TestPaused(w) ==
  /\ wpc[w] = "paused?"
  /\ Goto(w, IF paused THEN "lock" ELSE "get_data")
  /\ UNCHANGED <<flagVars, waitVars, dataVars, graphVars, mainVars>>

\* Lock, set thr_paused, notify pause_workers (and every waiting worker).
LockAndPause(w) ==
  /\ wpc[w] = "lock" /\ pause_lock = Free
  /\ pause_lock' = w
  /\ thr_paused' = [thr_paused EXCEPT ![w] = TRUE]
  /\ wpc' = [Notified(wpc) EXCEPT ![w] = "pred"]
  /\ UNCHANGED <<flagVars, spurious, dataVars, graphVars, mainVars>>

\* The predicate of pause_condition.wait.
WaitPredicate(w) ==
  /\ wpc[w] = "pred"
  /\ Goto(w, IF ~paused \/ shutdown THEN "leave" ELSE "block")
  /\ UNCHANGED <<flagVars, waitVars, dataVars, graphVars, mainVars>>

\* pause_condition.wait releases the mutex and starts to wait in one step.
Block(w) ==
  /\ wpc[w] = "block"
  /\ pause_lock' = Free
  /\ Goto(w, "waiting")
  /\ UNCHANGED <<flagVars, thr_paused, spurious, dataVars, graphVars, mainVars>>

SpuriousWake(w) ==
  /\ wpc[w] = "waiting" /\ spurious < MaxSpurious
  /\ spurious' = spurious + 1
  /\ Goto(w, "relock")
  /\ UNCHANGED <<flagVars, thr_paused, pause_lock, dataVars, graphVars, mainVars>>

Relock(w) ==
  /\ wpc[w] = "relock" /\ pause_lock = Free
  /\ pause_lock' = w
  /\ Goto(w, "pred")
  /\ UNCHANGED <<flagVars, thr_paused, spurious, dataVars, graphVars, mainVars>>

LeavePause(w) ==
  /\ wpc[w] = "leave"
  /\ thr_paused' = [thr_paused EXCEPT ![w] = FALSE]
  /\ pause_lock' = Free
  /\ Goto(w, "notify")
  /\ UNCHANGED <<flagVars, spurious, dataVars, graphVars, mainVars>>

\* Mutant: no second notify_all.
NotifyUnpaused_Silent(w) ==
  /\ wpc[w] = "notify"
  /\ Goto(w, "get_data")
  /\ UNCHANGED <<flagVars, waitVars, dataVars, graphVars, mainVars>>

\* The second notify_all, meant for unpause_workers, wakes workers as well.
NotifyUnpaused(w) ==
  /\ wpc[w] = "notify"
  /\ wpc' = [Notified(wpc) EXCEPT ![w] = "get_data"]
  /\ UNCHANGED <<flagVars, waitVars, dataVars, graphVars, mainVars>>

Worker(w) ==
  \/ GetData(w) \/ GetNothing(w) \/ BatchUpdate(w) \/ ApplyDelta(w)
  \/ WriteFreed(w) \/ GetDataCallback(w) \/ TestShutdown(w) \/ TestPaused(w)
  \/ LockAndPause(w) \/ WaitPredicate(w) \/ Block(w)
  \/ Relock(w) \/ LeavePause(w) \/ NotifyUnpaused(w)

-----------------------------------------------------------------------------
(***************************************************************************)
(* The client thread.                                                      *)
(***************************************************************************)
MainGoto(from, to) == mpc = from /\ mpc' = to

\* Graph::update inserts into the guttering system unless updates are locked.
\* The insert may fill a gutter, which is then pushed before update returns.
Update(u) ==
  /\ ~update_locked
  /\ UpdateAfterSave \/ ~paused
  /\ u \notin inserted
  /\ gutter' = gutter \cup {u}
  /\ inserted' = inserted \cup {u}
  /\ MainGoto("user", "user") \/ MainGoto("user", "push")
  /\ UNCHANGED <<flagVars, waitVars, wpc, queue, hold, applied, graphVars,
                 op, synced>>

\* The guttering system moves updates into a DataNode of the work queue and
\* waits while none is free.
PushNode ==
  /\ QueueHasRoom
  /\ \E node \in (SUBSET gutter) \ {{}} :
       /\ queue' = queue \cup {node}
       /\ gutter' = gutter \ node
  /\ UNCHANGED <<flagVars, waitVars, wpc, hold, applied, graphVars,
                 op, inserted, synced>>

InsertPush == MainGoto("push", "user") /\ PushNode

\* connected_components(true) or point_query, connected_components(false),
\* and write_binary all begin with force_flush.  A query that the DSU
\* answers returns before it, and changes nothing of this state.
Call(o) ==
  /\ MainGoto("user", "flush")
  /\ op' = o
  /\ UNCHANGED <<flagVars, waitVars, wpc, dataVars, graphVars, inserted, synced>>

FlushNode == MainGoto("flush", "flush") /\ PushNode

\* Mutant: force_flush returns with updates left in a gutter.
FlushDone_Early ==
  /\ MainGoto("flush", "set_paused")
  /\ UNCHANGED <<flagVars, waitVars, wpc, dataVars, graphVars, op, inserted, synced>>

FlushDone ==
  /\ gutter = {}
  /\ MainGoto("flush", "set_paused")
  /\ UNCHANGED <<flagVars, waitVars, wpc, dataVars, graphVars, op, inserted, synced>>

\* pause_workers
SetPaused ==
  /\ MainGoto("set_paused", "pause_nb")
  /\ paused' = TRUE
  /\ UNCHANGED <<shutdown, non_block, waitVars, wpc, dataVars, graphVars,
                 op, inserted, synced>>

PauseNonBlock ==
  /\ MainGoto("pause_nb", "pausing")
  /\ non_block' = TRUE
  /\ UNCHANGED <<paused, shutdown, waitVars, wpc, dataVars, graphVars,
                 op, inserted, synced>>

\* Mutant: one paused worker is enough.
PauseReturn_First ==
  /\ pause_lock = Free
  /\ \E w \in Workers : thr_paused[w]
  /\ MainGoto("pausing", IF op = "save" THEN "saving" ELSE "boruvka")
  /\ synced' = inserted
  /\ UNCHANGED <<flagVars, waitVars, wpc, dataVars, graphVars, op, inserted>>

\* The loop of pause_workers returns once it finds, under the mutex, every
\* worker paused.
PauseReturn ==
  /\ pause_lock = Free
  /\ \A w \in Workers : thr_paused[w]
  /\ MainGoto("pausing", IF op = "save" THEN "saving" ELSE "boruvka")
  /\ synced' = inserted
  /\ UNCHANGED <<flagVars, waitVars, wpc, dataVars, graphVars, op, inserted>>

\* boruvka_emulation locks updates first ...
BoruvkaStart ==
  /\ MainGoto("boruvka", "querying")
  /\ update_locked' = TRUE
  /\ UNCHANGED <<flagVars, waitVars, wpc, dataVars, freed, op, inserted, synced>>

\* ... and returns or throws.  connected_components(false) leaves the workers
\* paused and updates locked; the others go on to resume, exception or not.
BoruvkaEnd ==
  /\ MainGoto("querying", IF op = "final" THEN "user" ELSE "reset")
  /\ op' = IF op = "final" THEN "none" ELSE op
  /\ UNCHANGED <<flagVars, waitVars, wpc, dataVars, graphVars, inserted, synced>>

UnlockUpdates ==
  /\ MainGoto("reset", "unpause_nb")
  /\ update_locked' = FALSE
  /\ UNCHANGED <<flagVars, waitVars, wpc, dataVars, freed, op, inserted, synced>>

\* write_binary returns with the workers still paused.
SaveEnd ==
  /\ MainGoto("saving", "user")
  /\ op' = "none"
  /\ UNCHANGED <<flagVars, waitVars, wpc, dataVars, graphVars, inserted, synced>>

\* Mutant: the queue is left non-blocking.
UnpauseBlock_Omitted ==
  /\ MainGoto("unpause_nb", "unpause")
  /\ UNCHANGED <<flagVars, waitVars, wpc, dataVars, graphVars, op, inserted, synced>>

\* unpause_workers
UnpauseBlock ==
  /\ MainGoto("unpause_nb", "unpause")
  /\ non_block' = FALSE
  /\ UNCHANGED <<paused, shutdown, waitVars, wpc, dataVars, graphVars,
                 op, inserted, synced>>

ClearPaused ==
  /\ MainGoto("unpause", "notify")
  /\ paused' = FALSE
  /\ UNCHANGED <<shutdown, non_block, waitVars, wpc, dataVars, graphVars,
                 op, inserted, synced>>

NotifyWorkers ==
  /\ MainGoto("notify", "unpausing")
  /\ wpc' = Notified(wpc)
  /\ UNCHANGED <<flagVars, waitVars, dataVars, graphVars, op, inserted, synced>>

\* Mutant: unpause_workers returns without waiting for the workers.
UnpauseReturn_NoWait ==
  /\ MainGoto("unpausing", "user")
  /\ op' = "none"
  /\ UNCHANGED <<flagVars, waitVars, wpc, dataVars, graphVars, inserted, synced>>

UnpauseReturn ==
  /\ pause_lock = Free
  /\ \A w \in Workers : ~thr_paused[w]
  /\ MainGoto("unpausing", "user")
  /\ op' = "none"
  /\ UNCHANGED <<flagVars, waitVars, wpc, dataVars, graphVars, inserted, synced>>

-----------------------------------------------------------------------------
(***************************************************************************)
(* Graph::~Graph frees the supernodes and only then calls stop_workers.    *)
(* It waits for no update: whatever is in a gutter, in the queue or in the *)
(* hands of a worker when the client destroys the Graph is still there.    *)
(***************************************************************************)
Destroy ==
  /\ MainGoto("user", "free")
  /\ UNCHANGED <<flagVars, waitVars, wpc, dataVars, graphVars, op, inserted, synced>>

FreeSupernodes ==
  /\ MainGoto("free", "set_shutdown")
  /\ freed' = TRUE
  /\ UNCHANGED <<flagVars, waitVars, wpc, dataVars, update_locked, op, inserted,
                 synced>>

\* stop_workers does nothing when shutdown is set already.
SetShutdown ==
  /\ MainGoto("set_shutdown", IF shutdown THEN "closed" ELSE "stop_nb")
  /\ shutdown' = TRUE
  /\ UNCHANGED <<paused, non_block, waitVars, wpc, dataVars, graphVars,
                 op, inserted, synced>>

StopNonBlock ==
  /\ MainGoto("stop_nb", "stop_notify")
  /\ non_block' = TRUE
  /\ UNCHANGED <<paused, shutdown, waitVars, wpc, dataVars, graphVars,
                 op, inserted, synced>>

StopNotify ==
  /\ MainGoto("stop_notify", "joining")
  /\ wpc' = Notified(wpc)
  /\ UNCHANGED <<flagVars, waitVars, dataVars, graphVars, op, inserted, synced>>

JoinWorkers ==
  /\ \A w \in Workers : wpc[w] = "exited"
  /\ MainGoto("joining", "closed")
  /\ UNCHANGED <<flagVars, waitVars, wpc, dataVars, graphVars, op, inserted, synced>>

\* The steps the client thread takes once a call has begun.
MainStep ==
  \/ InsertPush \/ FlushNode \/ FlushDone
  \/ SetPaused \/ PauseNonBlock \/ PauseReturn
  \/ BoruvkaStart \/ BoruvkaEnd \/ UnlockUpdates \/ SaveEnd
  \/ UnpauseBlock \/ ClearPaused \/ NotifyWorkers \/ UnpauseReturn
  \/ FreeSupernodes \/ SetShutdown \/ StopNonBlock \/ StopNotify \/ JoinWorkers

\* The calls the client chooses to make.
ClientCall ==
  \/ \E u \in Updates : Update(u)
  \/ \E o \in Ops \ {"none"} : Call(o)
  \/ Destroy
  \/ Construct

Next ==
  \/ ClientCall
  \/ MainStep
  \/ \E w \in Workers : Worker(w) \/ SpuriousWake(w)

Spec == Init /\ [][Next]_vars

\* Threads that can run are scheduled; the client need never call anything
\* and a spurious wake-up need never happen.
Fairness == WF_vars(MainStep) /\ \A w \in Workers : WF_vars(Worker(w))
FairSpec == Spec /\ Fairness

-----------------------------------------------------------------------------
TypeOK ==
  /\ paused \in BOOLEAN /\ shutdown \in BOOLEAN /\ non_block \in BOOLEAN
  /\ thr_paused \in [Workers -> BOOLEAN]
  /\ pause_lock \in Workers \cup {Free}
  /\ wpc \in [Workers -> Working \cup Pausing]
  /\ hold \in [Workers -> SUBSET Updates]
  /\ gutter \subseteq Updates
  /\ queue \subseteq SUBSET Updates
  /\ applied \subseteq Updates /\ inserted \subseteq Updates
  /\ synced \subseteq Updates
  /\ update_locked \in BOOLEAN /\ freed \in BOOLEAN
  /\ mpc \in MainPC /\ op \in Ops
  /\ spurious \in 0..MaxSpurious

\* While a query or write_binary reads the supernodes, every update the
\* client made before the call is in them ("after this point all updates
\* have been processed from the buffer tree", src/graph.cpp:374) and no
\* worker is anywhere but in the wait of do_work.
QuerySeesAllUpdates ==
  mpc \in Reading => /\ applied = inserted
                     /\ \A w \in Workers : wpc[w] \in Pausing \ {"leave"}

\* No update is lost or applied twice on its way from the gutters through
\* the queue and a worker's DataNode to the sketches.  (A sketch is a sum
\* modulo 2: the second application would undo the first.)
ExactlyOnce ==
  \A u \in Updates :
    /\ u \in inserted <=> \/ u \in gutter \/ u \in applied
                          \/ \E n \in queue : u \in n
                          \/ \E w \in Workers : u \in hold[w]
    /\ ~(u \in gutter /\ u \in applied)
    /\ \A n \in queue : u \in n =>
         /\ u \notin gutter /\ u \notin applied
         /\ \A m \in queue : u \in m => m = n
    /\ \A w \in Workers : u \in hold[w] =>
         /\ u \notin gutter /\ u \notin applied
         /\ \A n \in queue : u \notin n
         /\ \A v \in Workers : u \in hold[v] => v = w

\* No worker lets UpdateLockedException out of its thread function or changes
\* a supernode under a query.  None writes to a supernode that ~Graph has
\* freed either, if a query that flushed had covered every update before.
WorkersAreSafe ==
  \A w \in Workers :
    /\ wpc[w] # "terminated"
    /\ wpc[w] = "delta" => ~update_locked
    /\ (freed /\ wpc[w] = "delta") \/ wpc[w] = "crashed" => synced # inserted

\* Whatever the client did before, no worker adds a delta to a supernode that
\* ~Graph has freed ("Update all the sketches in supernode, given a batch of
\* updates.", include/graph.h:159).
NoDeltaAfterFree == freed => \A w \in Workers : wpc[w] # "delta"

\* A write to freed memory has ended the process.
Crashed == \E w \in Workers : wpc[w] = "crashed"

\* A call that waits for the workers returns: queries, write_binary, the
\* update that had to push, and the destructor unless it crashes a worker.
CallReturns == mpc \notin {"user", "closed"} ~> mpc \in {"user", "closed"} \/ Crashed

\* A batch that reached the work queue is handed to a worker that finishes
\* it, however pauses, resumptions and the destructor fall.
QueuedIsApplied == \A u \in Updates : u \in UNION queue ~> u \in applied \/ Crashed

\* Seen through the updates on their way, the sketches and whether a query
\* reads them, the threads do what Ingest promises.
Abstract == INSTANCE Ingest WITH
              pending <- inserted \ applied,
              done <- applied,
              reading <- mpc \in Reading
ImplementsIngest == Abstract!Spec

-----------------------------------------------------------------------------
(***************************************************************************)
(* The inductive invariant behind the safety properties.                   *)
(***************************************************************************)
\* No update is anywhere between update() and the sketches.
Drained == gutter = {} /\ queue = {} /\ \A w \in Workers : hold[w] = {}

\* Every worker is in the wait of do_work and will find the predicate false
\* as long as paused is set; no worker has seen anything of a pause, and
\* only one that wrote to a freed supernode is dead.
Parked == \A w \in Workers : wpc[w] \in {"pred", "block", "waiting", "relock"}
AtWork == \A w \in Workers :
            wpc[w] \in {"get_data", "batch", "delta", "notify", "crashed"}

\* What a worker's control state says about its own data and its flag.
WorkerInv ==
  /\ {} \notin queue
  /\ \A w \in Workers :
       /\ wpc[w] # "terminated"
       /\ wpc[w] \notin {"batch", "delta", "crashed"} => hold[w] = {}
       /\ wpc[w] \in {"delta", "crashed"} => hold[w] # {}
       /\ thr_paused[w] <=> wpc[w] \in Pausing

\* What the client's control state says about the flags and the workers.
Settled == {"user", "push", "flush", "set_paused", "free", "set_shutdown"}
Closing == {"free", "set_shutdown", "stop_nb", "stop_notify", "joining", "closed"}
MainInv ==
  /\ mpc \in Settled => /\ ~shutdown
                        /\ paused => non_block /\ Parked /\ Drained
                        /\ ~paused => ~non_block /\ AtWork
  /\ mpc = "push" => ~paused
  /\ mpc = "set_paused" => gutter = {}
  /\ mpc = "pause_nb" => /\ ~shutdown /\ paused /\ gutter = {}
                         /\ non_block => Parked /\ Drained
                         /\ ~non_block => AtWork
  /\ mpc = "pausing" => /\ ~shutdown /\ paused /\ non_block /\ gutter = {}
                        /\ \A w \in Workers :
                             /\ wpc[w] \notin {"leave", "exited"}
                             /\ wpc[w] \in Pausing \cup {"shutdown?", "paused?", "lock"}
                                  => queue = {}
  /\ mpc \in Reading \cup {"unpause_nb"} => ~shutdown /\ paused /\ non_block /\ Parked /\ Drained
  /\ mpc = "unpause" => ~shutdown /\ paused /\ ~non_block /\ Parked /\ Drained
  /\ mpc \in {"notify", "unpausing"} =>
       /\ ~shutdown /\ ~paused /\ ~non_block /\ Drained
       /\ \A w \in Workers : wpc[w] \in Pausing \cup {"notify", "get_data"}
  /\ mpc = "closed" => \A w \in Workers : wpc[w] = "exited"
  /\ update_locked => Drained
  /\ freed => mpc \in Closing
  /\ synced \subseteq applied

\* From the invariant follow, step by step, the safety properties above: a
\* worker that found the queue empty in non-blocking mode proves that the
\* queue stays empty until the workers are unpaused, and no worker is left
\* with a thr_paused of the last pause when the next one begins.
PauseProtocol == WorkerInv /\ MainInv
=============================================================================
