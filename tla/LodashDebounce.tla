---------------------------- MODULE LodashDebounce ----------------------------
(***************************************************************************)
(* debounce and throttle of lodash.js: a function whose calls are put      *)
(* together until none has come for wait, or until maxWait is over.        *)
(*                                                                         *)
(* The times are kept as ages, counted up to the first value that makes no *)
(* difference any more, so that time goes on for ever.  A timer that is    *)
(* due may be handled at any later moment.  The clock may be set back.     *)
(***************************************************************************)
EXTENDS LodashBase

CONSTANTS
    wait,
    MaxWaits,       \* the maxWait of the options
    Args,           \* what the function is called with
    MaxTimers       \* bound: timers pending at a time

ASSUME WaitAssumption == wait \in Nat /\ MaxWaits \subseteq Nat

ASSUME MaxTimersAssumption == MaxTimers \in Nat \ {0}

VARIABLES
    options,        \* leading, trailing, maxWait (Undefined if not given)
    lastArgs,
    sinceCall,      \* now - lastCallTime
    sinceInvoke,    \* now - lastInvokeTime
    timerId,
    timers,         \* the pending timers: what is left of each
    latest,         \* history: arguments of the last call, until it is cancelled
    owed,           \* history: func has not been invoked since
    invoked         \* what func was invoked with in this step, or Undefined

debounceVars ==
    <<options, lastArgs, sinceCall, sinceInvoke, timerId, timers, latest, owed, invoked>>

TimerIds == 1 .. MaxTimers

\* Where the ages are counted no further.
LongAgo == Max(MaxWaits \cup {wait}) + 2

Options == [leading : BOOLEAN, trailing : BOOLEAN, maxWait : MaxWaits \cup {Undefined}]

maxing == options.maxWait # Undefined

\* throttle(func, wait, ..) is debounce with these options.
throttle(leading, trailing) ==
    [leading |-> leading, trailing |-> trailing, maxWait |-> wait]

\* lastInvokeTime is 0 at first, 1970.
debounce(opts) ==
    /\ options = IF opts.maxWait = Undefined THEN opts
                 ELSE [opts EXCEPT !.maxWait = Max({@, wait})]
    /\ lastArgs = Undefined
    /\ sinceCall = Undefined
    /\ sinceInvoke = LongAgo
    /\ timerId = Undefined
    /\ timers = [t \in {} |-> 0]
    /\ latest = Undefined
    /\ owed = FALSE
    /\ invoked = Undefined

-----------------------------------------------------------------------------
(* invokeFunc and Keep give lastArgs, sinceInvoke and invoked their next     *)
(* value.                                                                  *)

\* Faulty variant: the arguments are kept.
invokeFuncKeeping(args) ==
    /\ lastArgs' = args
    /\ sinceInvoke' = 0
    /\ invoked' = args

invokeFunc(args) ==
    /\ lastArgs' = Undefined
    /\ sinceInvoke' = 0
    /\ invoked' = args

Keep(args) ==
    /\ lastArgs' = args
    /\ invoked' = Undefined
    /\ UNCHANGED sinceInvoke

remainingWait ==
    LET result == wait - sinceCall
    IN  IF maxing THEN Min({result, options.maxWait - sinceInvoke}) ELSE result

shouldInvoke ==
    \/ sinceCall = Undefined
    \/ sinceCall >= wait
    \/ sinceCall < 0
    \/ maxing /\ sinceInvoke >= options.maxWait

\* setTimeout; pending are the timers there are but for this one.
SetTimer(pending, after) ==
    \E t \in TimerIds \ DOMAIN pending :
        /\ t = Min(TimerIds \ DOMAIN pending)
        /\ timerId' = t
        /\ timers' = [u \in DOMAIN pending \cup {t} |->
                        IF u = t THEN Max({after, 0}) ELSE pending[u]]

leadingEdge(args) ==
    /\ SetTimer(timers, wait)
    /\ sinceInvoke' = 0
    /\ IF options.leading
       THEN lastArgs' = Undefined /\ invoked' = args
       ELSE lastArgs' = args /\ invoked' = Undefined

trailingEdge ==
    /\ timerId' = Undefined
    /\ IF options.trailing /\ lastArgs # Undefined
       THEN invokeFunc(lastArgs)
       ELSE Keep(Undefined)

-----------------------------------------------------------------------------
\* Faulty variant: a timer that came too early is not set again.
timerExpiredOnce(t) ==
    /\ t \in DOMAIN timers
    /\ timers[t] = 0
    /\ timers' = [u \in DOMAIN timers \ {t} |-> timers[u]]
    /\ IF shouldInvoke THEN trailingEdge ELSE UNCHANGED timerId /\ Keep(lastArgs)
    /\ owed' = (owed /\ invoked' = Undefined)
    /\ UNCHANGED <<options, sinceCall, latest>>

\* A timer that is not the one of timerId, as flush and the tight loop leave
\* behind, does the same.
timerExpired(t) ==
    /\ t \in DOMAIN timers
    /\ timers[t] = 0
    /\ LET others == [u \in DOMAIN timers \ {t} |-> timers[u]]
       IN  IF shouldInvoke
           THEN trailingEdge /\ timers' = others
           ELSE SetTimer(others, remainingWait) /\ Keep(lastArgs)
    /\ owed' = (owed /\ invoked' = Undefined)
    /\ UNCHANGED <<options, sinceCall, latest>>

debounced(args) ==
    /\ sinceCall' = 0
    /\ latest' = args
    /\ CASE shouldInvoke /\ timerId = Undefined -> leadingEdge(args)
         [] shouldInvoke /\ timerId # Undefined /\ maxing ->
                SetTimer(timers, wait) /\ invokeFunc(args)
         [] ~(shouldInvoke /\ (timerId = Undefined \/ maxing)) ->
                /\ Keep(args)
                /\ IF timerId = Undefined THEN SetTimer(timers, wait)
                   ELSE UNCHANGED <<timerId, timers>>
    /\ owed' = (invoked' = Undefined)
    /\ UNCHANGED options

cancel ==
    /\ timers' = [u \in DOMAIN timers \ {timerId} |-> timers[u]]
    /\ sinceInvoke' = LongAgo
    /\ lastArgs' = Undefined
    /\ sinceCall' = Undefined
    /\ timerId' = Undefined
    /\ latest' = Undefined
    /\ owed' = FALSE
    /\ invoked' = Undefined
    /\ UNCHANGED options

\* The timer is not cleared.
flush ==
    /\ timerId # Undefined
    /\ trailingEdge
    /\ owed' = (owed /\ invoked' = Undefined)
    /\ UNCHANGED <<options, sinceCall, timers, latest>>

Older(age) == IF age = Undefined THEN age ELSE Min({age + 1, LongAgo})

Tick ==
    /\ sinceCall' = Older(sinceCall)
    /\ sinceInvoke' = Older(sinceInvoke)
    /\ timers' = [t \in DOMAIN timers |-> IF timers[t] = 0 THEN 0 ELSE timers[t] - 1]
    /\ invoked' = Undefined
    /\ UNCHANGED <<options, lastArgs, timerId, latest, owed>>

\* An age when the clock has been set back by one, at least -1.  One that was
\* counted no further may have been greater.
Younger(age) ==
    IF age = Undefined
    THEN {age}
    ELSE {Max({age - 1, -1})} \cup ({age} \cap {LongAgo})

\* The clock is set back; timers do not go by it.
SetBack ==
    /\ sinceCall' \in Younger(sinceCall)
    /\ sinceInvoke' \in Younger(sinceInvoke)
    /\ invoked' = Undefined
    /\ UNCHANGED <<options, lastArgs, timerId, timers, latest, owed>>

DebounceNext ==
    \/ \E args \in Args : debounced(args)
    \/ \E t \in TimerIds : timerExpired(t)
    \/ cancel
    \/ flush
    \/ Tick
    \/ SetBack

\* Time goes on, and the event loop gets to a timer that is due.
DebounceFairness ==
    /\ WF_debounceVars(Tick)
    /\ \A t \in TimerIds : WF_debounceVars(timerExpired(t))

-----------------------------------------------------------------------------
\* func is invoked at most once for a call, and with the arguments of the last
\* one: neither a flush, nor a timer left behind, nor a clock that was set back
\* makes it run again, nor does it run after cancel.
OncePerCall ==
    [][invoked' # Undefined =>
        /\ owed \/ \E args \in Args : debounced(args)
        /\ invoked' = latest']_debounceVars

\* With a trailing invocation the last call reaches func, unless it is cancelled:
\* with a maxWait whatever calls come, without one once they have stopped; the
\* clock must not be set back for ever.
LastCallDelivered ==
    /\ options.trailing
    /\ <>[][~SetBack]_debounceVars
    /\ maxing \/ <>[][~\E args \in Args : debounced(args)]_debounceVars
    => (owed ~> ~owed)

=============================================================================
