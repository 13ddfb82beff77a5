------------------------------ MODULE UMDaemon ------------------------------
(***************************************************************************)
(* The update manager's daemons: main() of                                 *)
(* template/umanager/bin/um_daemon.py, with getUpdatedConfig of            *)
(* update_manager.py and get_tokens.sh.                                    *)
(*                                                                         *)
(* A daemon that holds the Zookeeper lock asks alertd, every few seconds   *)
(* and once per customer token, for the configurations edited in a window  *)
(* of time, and publishes what it got.  A configuration that no window     *)
(* returns is never delivered to its host, so each window starts before    *)
(* the end of the last one: by the clock of MySQL, which also stamps the   *)
(* edits, an edit becomes visible some time after its stamp.               *)
(*                                                                         *)
(* Requests fail or return something that is not JSON, tokens are added    *)
(* and deleted, daemons crash, lose their Zookeeper session and restart.   *)
(***************************************************************************)
EXTENDS Integers, FiniteSets

CONSTANTS
    Daemons,        \* the um_daemon processes
    Edits,          \* the edits of configurations, each made at most once
    Tokens,         \* the api keys of the customers' systems
    TokenOf,        \* the token of the system each edit belongs to
    FirstTokens,    \* the tokens in MySQL, and in the token files, at first
    NoOne,          \* the lock is free
    Overlap,        \* timedelta(seconds=128)
    Day,            \* timedelta(days=1)
    MaxLag,         \* an edit is visible at most this long after its stamp
    ReloadEvery,    \* the tokens are reloaded every so many iterations
    MaxTime, MaxFaults   \* bounds

ASSUME ParamsAssumption ==
    /\ Overlap \in Nat
    /\ Day \in Nat \ {0}
    /\ MaxLag \in Nat
    /\ ReloadEvery \in Nat \ {0}
    /\ MaxTime \in Nat
    /\ MaxFaults \in Nat

ASSUME TokensAssumption ==
    /\ TokenOf \in [Edits -> Tokens]
    /\ FirstTokens \subseteq Tokens
    /\ IsFiniteSet(Tokens)

ASSUME NoOneAssumption == NoOne \notin Daemons

\* What the windows are laid out for: an edit becomes visible before every
\* window that contains its stamp has passed.
ASSUME LagAssumption == MaxLag <= Overlap + 1

Unmade == -1

VARIABLES
    now,        \* SELECT NOW()
    stamp,      \* when each edit was made
    visible,    \* the edits that a query can see
    db,         \* the tokens in MySQL
    lock,       \* the session that holds /umanager
    pc,         \* where each daemon is
    count,      \* iterations, of which only the remainder is kept
    last,       \* lastHourDateTime
    to,         \* the end of the current window
    known,      \* the token file of each daemon's host
    todo,       \* the tokens still to ask for in this window
    got,        \* the edits returned in this window so far
    shutdown_requested,   \* the global variable of um_daemon.py
    \* history and bounds
    fetched,    \* the edits that some window has returned
    dropped,    \* the edits given up, see FetchGarbage, FinishRun and Begin
    signalled,  \* the daemons that got SIGTERM or SIGINT
    faults

clockVars == <<now, stamp, visible, db>>
procVars  == <<count, last, to, known, todo, got>>
sigVars   == <<shutdown_requested, signalled>>
histVars  == <<fetched, dropped>>
vars == <<now, stamp, visible, db, lock, pc, count, last, to, known, todo,
          got, shutdown_requested, fetched, dropped, signalled, faults>>

Init ==
    /\ now = Day + Overlap
    /\ stamp = [e \in Edits |-> Unmade]
    /\ visible = {}
    /\ db = FirstTokens
    /\ lock = NoOne
    /\ pc = [d \in Daemons |-> "down"]
    /\ count = [d \in Daemons |-> 0]
    /\ last = [d \in Daemons |-> 0]
    /\ to = [d \in Daemons |-> 0]
    /\ known = [d \in Daemons |-> FirstTokens]
    /\ todo = [d \in Daemons |-> {}]
    /\ got = [d \in Daemons |-> {}]
    /\ shutdown_requested = [d \in Daemons |-> FALSE]
    /\ fetched = {}
    /\ dropped = {}
    /\ signalled = {}
    /\ faults = 0

-----------------------------------------------------------------------------
(* The clock, the edits and the tokens, in MySQL.                          *)

\* The clock waits for no daemon, only for edits that have to be visible.
Tick ==
    /\ now < MaxTime
    /\ \A e \in Edits \ visible : stamp[e] # Unmade => now < stamp[e] + MaxLag
    /\ now' = now + 1
    /\ UNCHANGED <<stamp, visible, db, lock, pc, procVars, sigVars, histVars,
                   faults>>

MakeEdit(e) ==
    /\ stamp[e] = Unmade
    /\ stamp' = [stamp EXCEPT ![e] = now]
    /\ UNCHANGED <<now, visible, db, lock, pc, procVars, sigVars, histVars,
                   faults>>

ShowEdit(e) ==
    /\ stamp[e] # Unmade
    /\ e \notin visible
    /\ visible' = visible \cup {e}
    /\ UNCHANGED <<now, stamp, db, lock, pc, procVars, sigVars, histVars,
                   faults>>

AddToken(t) ==
    /\ t \notin db
    /\ db' = db \cup {t}
    /\ UNCHANGED <<now, stamp, visible, lock, pc, procVars, sigVars, histVars,
                   faults>>

DeleteToken(t) ==
    /\ t \in db
    /\ faults < MaxFaults
    /\ faults' = faults + 1
    /\ db' = db \ {t}
    /\ UNCHANGED <<now, stamp, visible, lock, pc, procVars, sigVars, histVars>>

-----------------------------------------------------------------------------
(* um_daemon.py                                                            *)

\* get_tokens.sh replaces the token file only by one with more lines; a query
\* that fails has no lines.
GetTokens(d) ==
    \/ UNCHANGED known
    \/ /\ Cardinality(db) > Cardinality(known[d])
       /\ known' = [known EXCEPT ![d] = db]

\* supervisord starts a daemon; before it waits for the lock it gets the
\* tokens.
Start(d) ==
    /\ pc[d] = "down"
    /\ pc' = [pc EXCEPT ![d] = "lock"]
    /\ GetTokens(d)
    /\ UNCHANGED <<clockVars, lock, count, last, to, todo, got, sigVars,
                   histVars, faults>>

\* Faulty variant: the attempt to get the lock times out, and the daemon does
\* not look at what it returned.
AcquireInVain(d) ==
    /\ pc[d] = "lock"
    /\ lock' = IF lock = NoOne THEN d ELSE lock
    /\ pc' = [pc EXCEPT ![d] = "begin"]
    /\ UNCHANGED <<clockVars, procVars, sigVars, histVars, faults>>

\* with lock: a daemon waits until it is the master.
Acquire(d) ==
    /\ pc[d] = "lock"
    /\ lock = NoOne
    /\ lock' = d
    /\ pc' = [pc EXCEPT ![d] = "begin"]
    /\ UNCHANGED <<clockVars, procVars, sigVars, histVars, faults>>

\* The edits that nobody has fetched and no later window reaches back to.
Behind(start) ==
    {e \in visible \ fetched : stamp[e] < start - Overlap}

\* A new master looks a day back.
Begin(d) ==
    /\ pc[d] = "begin"
    /\ pc' = [pc EXCEPT ![d] = "top"]
    /\ count' = [count EXCEPT ![d] = 0]
    /\ last' = [last EXCEPT ![d] = now - Day]
    /\ dropped' = dropped \cup Behind(now - Day)
    /\ UNCHANGED <<clockVars, lock, to, known, todo, got, sigVars, fetched,
                   faults>>

\* Faulty variant: the lock outlives the process.
StopHoldsLock(d) ==
    /\ pc' = [pc EXCEPT ![d] = "down"]
    /\ count' = [count EXCEPT ![d] = 0]
    /\ last' = [last EXCEPT ![d] = 0]
    /\ to' = [to EXCEPT ![d] = 0]
    /\ todo' = [todo EXCEPT ![d] = {}]
    /\ got' = [got EXCEPT ![d] = {}]
    /\ shutdown_requested' = [shutdown_requested EXCEPT ![d] = FALSE]
    /\ signalled' = signalled \ {d}
    /\ UNCHANGED <<clockVars, lock, known, histVars>>

\* The process ends, with its variables and its session.
Stop(d) ==
    /\ pc' = [pc EXCEPT ![d] = "down"]
    /\ lock' = IF lock = d THEN NoOne ELSE lock
    /\ count' = [count EXCEPT ![d] = 0]
    /\ last' = [last EXCEPT ![d] = 0]
    /\ to' = [to EXCEPT ![d] = 0]
    /\ todo' = [todo EXCEPT ![d] = {}]
    /\ got' = [got EXCEPT ![d] = {}]
    /\ shutdown_requested' = [shutdown_requested EXCEPT ![d] = FALSE]
    /\ signalled' = signalled \ {d}
    /\ UNCHANGED <<clockVars, known, histVars>>

\* Every so many iterations the tokens are reloaded.  The code counts on and
\* takes the remainder, the only thing it uses; the model keeps the remainder.
ReloadTokens(d) ==
    /\ count' = [count EXCEPT ![d] = (@ + 1) % ReloadEvery]
    /\ IF count[d] = 0 THEN GetTokens(d) ELSE UNCHANGED known

\* An iteration begins: take the time, read the token file.
Iterate(d) ==
    /\ ReloadTokens(d)
    /\ to' = [to EXCEPT ![d] = now]
    /\ todo' = [todo EXCEPT ![d] = known'[d]]
    /\ got' = [got EXCEPT ![d] = {}]
    /\ pc' = [pc EXCEPT ![d] = "fetch"]
    /\ UNCHANGED <<clockVars, lock, last, sigVars, histVars>>

\* The while loop, which sleep_for leaves too.
Top(d) ==
    /\ pc[d] = "top"
    /\ IF shutdown_requested[d] THEN Stop(d) ELSE Iterate(d)
    /\ UNCHANGED faults

\* The time cannot be had from MySQL: log, sleep, try again.
TopFails(d) ==
    /\ pc[d] = "top"
    /\ ~shutdown_requested[d]
    /\ faults < MaxFaults
    /\ faults' = faults + 1
    /\ ReloadTokens(d)
    /\ UNCHANGED <<clockVars, lock, pc, last, to, todo, got, sigVars, histVars>>

\* Faulty variant: the window starts where the last one ended.
InWindowNoOverlap(d, t) ==
    {e \in visible : /\ TokenOf[e] = t
                     /\ last[d] <= stamp[e]
                     /\ stamp[e] <= to[d]}

\* What alertd answers for token t: the edits visible now whose stamps are in
\* the window.
InWindow(d, t) ==
    {e \in visible : /\ TokenOf[e] = t
                     /\ last[d] - Overlap <= stamp[e]
                     /\ stamp[e] <= to[d]}

FetchToken(d, t) ==
    /\ pc[d] = "fetch"
    /\ t \in todo[d]
    /\ got' = [got EXCEPT ![d] = @ \cup InWindow(d, t)]
    /\ todo' = [todo EXCEPT ![d] = @ \ {t}]
    /\ UNCHANGED <<clockVars, lock, pc, count, last, to, known, sigVars,
                   histVars, faults>>

\* The answer is not JSON: the exception is passed over, and so are the edits
\* of this token.
FetchGarbage(d, t) ==
    /\ pc[d] = "fetch"
    /\ t \in todo[d]
    /\ faults < MaxFaults
    /\ faults' = faults + 1
    /\ todo' = [todo EXCEPT ![d] = @ \ {t}]
    /\ dropped' = dropped \cup InWindow(d, t)
    /\ UNCHANGED <<clockVars, lock, pc, count, last, to, known, got, sigVars,
                   fetched>>

\* The local variables of an iteration end with it.
EndIteration(d) ==
    /\ pc' = [pc EXCEPT ![d] = "top"]
    /\ to' = [to EXCEPT ![d] = 0]
    /\ todo' = [todo EXCEPT ![d] = {}]
    /\ got' = [got EXCEPT ![d] = {}]

\* A request times out: the iteration is given up as a whole, the next one
\* starts from the same time.
FetchFails(d) ==
    /\ pc[d] = "fetch"
    /\ todo[d] # {}
    /\ faults < MaxFaults
    /\ faults' = faults + 1
    /\ EndIteration(d)
    /\ UNCHANGED <<clockVars, lock, count, last, known, sigVars, histVars>>

\* The window is published; the next one starts where it ended.  The edits of
\* tokens that are not in the file have been passed over.
FinishRun(d) ==
    /\ pc[d] = "fetch"
    /\ todo[d] = {}
    /\ fetched' = fetched \cup got[d]
    /\ dropped' = dropped \cup
                    UNION {InWindow(d, t) : t \in Tokens \ known[d]}
    /\ last' = [last EXCEPT ![d] = to[d] - 1]
    /\ EndIteration(d)
    /\ UNCHANGED <<clockVars, lock, count, known, sigVars, faults>>

\* The signal handler assigns a local variable.
ShutdownSignal(d) ==
    /\ pc[d] # "down"
    /\ d \notin signalled
    /\ faults < MaxFaults
    /\ faults' = faults + 1
    /\ signalled' = signalled \cup {d}
    /\ UNCHANGED <<clockVars, lock, pc, procVars, shutdown_requested,
                   histVars>>

\* The process ends: an exception outside the loop's try (in get_current_time
\* before the loop, in Zookeeper's client), a kill, a host that goes down.
Crash(d) ==
    /\ pc[d] # "down"
    /\ faults < MaxFaults
    /\ faults' = faults + 1
    /\ Stop(d)

\* Zookeeper gives the lock of a session that has expired away; the daemon
\* does not look at the state of its session and carries on.
LoseSession(d) ==
    /\ lock = d
    /\ faults < MaxFaults
    /\ faults' = faults + 1
    /\ lock' = NoOne
    /\ UNCHANGED <<clockVars, pc, procVars, sigVars, histVars>>

-----------------------------------------------------------------------------
Database ==
    \/ Tick
    \/ \E e \in Edits : MakeEdit(e) \/ ShowEdit(e)
    \/ \E t \in Tokens : AddToken(t) \/ DeleteToken(t)

DaemonStep(d) ==
    \/ Start(d)
    \/ Acquire(d)
    \/ Begin(d)
    \/ Top(d)
    \/ \E t \in Tokens : FetchToken(d, t)
    \/ FinishRun(d)

Trouble(d) ==
    \/ TopFails(d)
    \/ \E t \in Tokens : FetchGarbage(d, t)
    \/ FetchFails(d)
    \/ ShutdownSignal(d)
    \/ Crash(d)
    \/ LoseSession(d)

Next == Database \/ \E d \in Daemons : DaemonStep(d) \/ Trouble(d)

Spec == Init /\ [][Next]_vars

\* supervisord restarts the daemons (autorestart), and each takes its steps.
FairSpec == Spec /\ \A d \in Daemons : WF_vars(DaemonStep(d))

-----------------------------------------------------------------------------
(* Properties                                                              *)

\* The type invariant.
TypeOK ==
    /\ now \in Nat
    /\ stamp \in [Edits -> Nat \cup {Unmade}]
    /\ visible \subseteq Edits
    /\ db \subseteq Tokens
    /\ lock \in Daemons \cup {NoOne}
    /\ pc \in [Daemons -> {"down", "lock", "begin", "top", "fetch"}]
    /\ count \in [Daemons -> Nat]
    /\ last \in [Daemons -> Int]
    /\ to \in [Daemons -> Int]
    /\ known \in [Daemons -> SUBSET Tokens]
    /\ todo \in [Daemons -> SUBSET Tokens]
    /\ got \in [Daemons -> SUBSET Edits]
    /\ shutdown_requested \in [Daemons -> BOOLEAN]
    /\ fetched \subseteq Edits
    /\ dropped \subseteq Edits
    /\ signalled \subseteq Daemons
    /\ faults \in Nat

\* Only a daemon at work holds the lock: a process that ends, in whatever
\* way, leaves it free for the next master.
LockAtWork == lock # NoOne => pc[lock] \in {"begin", "top", "fetch"}

\* The daemons that work without the lock.
Strays == {d \in Daemons : pc[d] \in {"begin", "top", "fetch"} /\ lock # d}

\* Two masters may be at work, for a daemon whose session has expired carries
\* on, but each such daemon has cost a fault of its own: while sessions last,
\* restarts, crashes and failed iterations never make a second one.
OneMaster ==
    /\ TypeOK
    /\ LockAtWork
    /\ IsFiniteSet(Strays)
    /\ Cardinality(Strays) <= faults

\* A master never moves its window past an edit that nobody has fetched: not
\* by a request that failed, an edit that became visible late, a crash, a
\* second master.  The exceptions are in "dropped": an answer that was not
\* JSON, a token not in the file, a day without a master.
NoEditLeftBehind ==
    \A d \in Daemons :
        pc[d] \in {"top", "fetch"} => Behind(last[d]) \subseteq dropped

\* Every edit that becomes visible is fetched in the end, or is one of those
\* given up: nothing keeps the daemons from going round.
EveryEditFetched ==
    \A e \in Edits : e \in visible ~> e \in fetched \cup dropped

\* "shutting down, got signal": a daemon told to shut down does.
ShutsDown ==
    \A d \in Daemons : d \in signalled ~> pc[d] = "down"

=============================================================================
