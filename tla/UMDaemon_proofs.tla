--------------------------- MODULE UMDaemon_proofs --------------------------
(***************************************************************************)
(* That no edit is left behind, for any daemons, edits, tokens and bounds, *)
(* and any overlap of the windows that the lag of the edits allows.        *)
(*                                                                         *)
(* The argument: an edit that is not visible yet was stamped at most       *)
(* MaxLag ago (Lagging), so it will be in the next window when it becomes  *)
(* visible; while a window is fetched, an edit in it that has not been     *)
(* returned by a token already asked for was stamped within MaxLag of the  *)
(* window's end (Asked), so the next window reaches back to it.            *)
(***************************************************************************)
EXTENDS UMDaemon, FiniteSetTheorems, TLAPS

\* Edits are stamped before they are visible, which they are within MaxLag.
Lagging ==
    \A e \in Edits :
        /\ stamp[e] <= now
        /\ e \in visible => stamp[e] # Unmade
        /\ stamp[e] # Unmade /\ e \notin visible => now <= stamp[e] + MaxLag

\* A master's next window starts in the past.
Past ==
    \A d \in Daemons :
        /\ pc[d] \in {"top", "fetch"} => last[d] < now
        /\ pc[d] = "fetch" => to[d] <= now

\* The edits of the current window that belong to a token already asked for.
Asked ==
    \A d \in Daemons, e \in visible :
        /\ pc[d] = "fetch"
        /\ TokenOf[e] \notin todo[d]
        /\ last[d] - Overlap <= stamp[e]
        /\ stamp[e] <= to[d]
        => \/ e \in got[d] \cup dropped
           \/ TokenOf[e] \notin known[d]
           \/ to[d] - MaxLag <= stamp[e]

IInv == TypeOK /\ Lagging /\ Past /\ Asked /\ NoEditLeftBehind

-----------------------------------------------------------------------------
LEMMA TypeInit == Init => TypeOK
BY ParamsAssumption, TokensAssumption DEF Init, TypeOK, Unmade

LEMMA ModRange ==
    ASSUME NEW n \in Int, NEW k \in Nat \ {0}
    PROVE  n % k \in Nat
OBVIOUS

LEMMA TypeStep ==
    ASSUME TypeOK, [Next]_vars
    PROVE  TypeOK'
<1> USE ParamsAssumption, TokensAssumption DEF TypeOK, Unmade
<1>1. CASE Tick
    BY <1>1 DEF Tick, procVars, sigVars, histVars
<1>2. ASSUME NEW e \in Edits, MakeEdit(e) \/ ShowEdit(e)
      PROVE  TypeOK'
    BY <1>2 DEF MakeEdit, ShowEdit, procVars, sigVars, histVars
<1>3. ASSUME NEW t \in Tokens, AddToken(t) \/ DeleteToken(t)
      PROVE  TypeOK'
    BY <1>3 DEF AddToken, DeleteToken, procVars, sigVars, histVars
<1>4. ASSUME NEW d \in Daemons, DaemonStep(d) \/ Trouble(d)
      PROVE  TypeOK'
    <2>1. CASE Start(d)
        BY <2>1 DEF Start, GetTokens, clockVars, sigVars, histVars
    <2>2. CASE Acquire(d)
        BY <2>2 DEF Acquire, clockVars, procVars, sigVars, histVars
    <2>3. CASE Begin(d)
        BY <2>3 DEF Begin, Behind, clockVars, sigVars
    <2>4. ASSUME Stop(d), UNCHANGED faults \/ faults' = faults + 1
          PROVE  TypeOK'
        BY <2>4 DEF Stop, clockVars, histVars
    <2>5. ASSUME ReloadTokens(d)
          PROVE  /\ count' \in [Daemons -> Nat]
                 /\ known' \in [Daemons -> SUBSET Tokens]
        <3>1. (count[d] + 1) % ReloadEvery \in Nat
            <4>1. count[d] + 1 \in Int /\ ReloadEvery \in Nat \ {0}
                OBVIOUS
            <4>2. QED
                BY <4>1, ModRange
        <3>2. QED
            BY <2>5, <3>1 DEF ReloadTokens, GetTokens
    <2>6. CASE Top(d)
        <3>1. CASE Stop(d) /\ UNCHANGED faults
            BY <3>1, <2>4
        <3>2. CASE Iterate(d) /\ UNCHANGED faults
            <4>1. /\ count' \in [Daemons -> Nat]
                  /\ known' \in [Daemons -> SUBSET Tokens]
                BY <3>2, <2>5 DEF Iterate
            <4>2. /\ todo' = [todo EXCEPT ![d] = known'[d]]
                  /\ known'[d] \in SUBSET Tokens
                BY <3>2, <4>1 DEF Iterate
            <4>3. todo' \in [Daemons -> SUBSET Tokens]
                BY <4>2
            <4>4. /\ to' \in [Daemons -> Int]
                  /\ got' \in [Daemons -> SUBSET Edits]
                  /\ pc' \in [Daemons -> {"down", "lock", "begin", "top", "fetch"}]
                BY <3>2 DEF Iterate
            <4>5. UNCHANGED <<now, stamp, visible, db, lock, last,
                              shutdown_requested, signalled, fetched, dropped,
                              faults>>
                BY <3>2 DEF Iterate, clockVars, sigVars, histVars
            <4>6. QED
                BY <4>1, <4>3, <4>4, <4>5
        <3>3. QED
            BY <2>6, <3>1, <3>2 DEF Top
    <2>7. CASE TopFails(d)
        BY <2>7, <2>5 DEF TopFails, clockVars, sigVars, histVars
    <2>8. ASSUME NEW t \in Tokens, FetchToken(d, t) \/ FetchGarbage(d, t)
          PROVE  TypeOK'
        <3>1. InWindow(d, t) \subseteq Edits
            BY DEF InWindow
        <3>2. QED
            BY <2>8, <3>1
            DEF FetchToken, FetchGarbage, clockVars, sigVars, histVars
    <2>9. CASE FetchFails(d)
        BY <2>9 DEF FetchFails, EndIteration, clockVars, sigVars, histVars
    <2>10. CASE FinishRun(d)
        <3>1. UNION {InWindow(d, t) : t \in Tokens \ known[d]} \subseteq Edits
            BY DEF InWindow
        <3>2. QED
            BY <2>10, <3>1 DEF FinishRun, EndIteration, clockVars, sigVars
    <2>11. CASE ShutdownSignal(d) \/ LoseSession(d)
        BY <2>11
        DEF ShutdownSignal, LoseSession, clockVars, procVars, sigVars, histVars
    <2>12. CASE Crash(d)
        BY <2>12, <2>4 DEF Crash
    <2>13. QED
        BY <1>4, <2>1, <2>2, <2>3, <2>6, <2>7, <2>8, <2>9, <2>10, <2>11, <2>12
        DEF DaemonStep, Trouble
<1>5. CASE UNCHANGED vars
    BY <1>5 DEF vars
<1>6. QED
    BY <1>1, <1>2, <1>3, <1>4, <1>5 DEF Next, Database

-----------------------------------------------------------------------------
\* The clock, the edits and the tokens move on.
LEMMA DatabaseStep ==
    ASSUME IInv, Database
    PROVE  Lagging' /\ Past' /\ Asked' /\ NoEditLeftBehind'
<1> USE ParamsAssumption DEF Unmade
<1>0. TypeOK /\ Lagging /\ Past /\ Asked /\ NoEditLeftBehind
    BY DEF IInv
<1>1. CASE Tick
    <2>1. now' = now + 1 /\ UNCHANGED <<stamp, visible, pc, last, to, known,
                                       todo, got, fetched, dropped>>
        BY <1>1 DEF Tick, procVars, histVars
    <2>2. Lagging'
        BY <1>0, <1>1, <2>1 DEF Tick, TypeOK, Lagging
    <2>3. Past'
        BY <1>0, <2>1 DEF TypeOK, Past
    <2>4. Asked' /\ NoEditLeftBehind'
        BY <1>0, <2>1 DEF Asked, NoEditLeftBehind, Behind
    <2>5. QED
        BY <2>2, <2>3, <2>4
<1>2. ASSUME NEW e \in Edits, MakeEdit(e)
      PROVE  Lagging' /\ Past' /\ Asked' /\ NoEditLeftBehind'
    <2>1. /\ stamp' = [stamp EXCEPT ![e] = now]
          /\ UNCHANGED <<now, visible, pc, last, to, known, todo, got, fetched,
                         dropped>>
        BY <1>2 DEF MakeEdit, procVars, histVars
    <2>2. e \notin visible
        BY <1>0, <1>2 DEF MakeEdit, Lagging
    <2>3. \A x \in Edits \ {e} : stamp'[x] = stamp[x]
        BY <1>0, <2>1 DEF TypeOK
    <2>4. stamp'[e] = now
        BY <1>0, <2>1 DEF TypeOK
    <2>5. Lagging'
        BY <1>0, <2>1, <2>2, <2>3, <2>4 DEF TypeOK, Lagging
    <2>6. Past'
        BY <1>0, <2>1 DEF Past
    <2>7. visible \subseteq Edits \ {e}
        BY <1>0, <2>2 DEF TypeOK
    <2>8. Asked'
        BY <1>0, <2>1, <2>3, <2>7 DEF Asked
    <2>9. NoEditLeftBehind'
        BY <1>0, <2>1, <2>3, <2>7 DEF NoEditLeftBehind, Behind
    <2>10. QED
        BY <2>5, <2>6, <2>8, <2>9
<1>3. ASSUME NEW e \in Edits, ShowEdit(e)
      PROVE  Lagging' /\ Past' /\ Asked' /\ NoEditLeftBehind'
    <2>1. /\ visible' = visible \cup {e}
          /\ UNCHANGED <<now, stamp, pc, last, to, known, todo, got, fetched,
                         dropped>>
        BY <1>3 DEF ShowEdit, procVars, histVars
    <2>2. /\ stamp[e] \in Int
          /\ now <= stamp[e] + MaxLag
        BY <1>0, <1>3 DEF ShowEdit, TypeOK, Lagging
    <2>3. Lagging' /\ Past'
        BY <1>0, <1>3, <2>1 DEF ShowEdit, Lagging, Past
    <2>4. Asked'
        <3>1. ASSUME NEW d \in Daemons, pc[d] = "fetch"
              PROVE  to[d] - MaxLag <= stamp[e]
            BY <1>0, <2>2, <3>1 DEF Past, TypeOK
        <3>2. QED
            BY <1>0, <2>1, <3>1 DEF Asked
    <2>5. NoEditLeftBehind'
        <3>1. ASSUME NEW d \in Daemons, pc[d] \in {"top", "fetch"}
              PROVE  ~(stamp[e] < last[d] - Overlap)
            BY <1>0, <2>2, <3>1, LagAssumption DEF Past, TypeOK
        <3>2. QED
            BY <1>0, <2>1, <3>1 DEF NoEditLeftBehind, Behind
    <2>6. QED
        BY <2>3, <2>4, <2>5
<1>4. ASSUME NEW t \in Tokens, AddToken(t) \/ DeleteToken(t)
      PROVE  Lagging' /\ Past' /\ Asked' /\ NoEditLeftBehind'
    BY <1>0, <1>4
    DEF AddToken, DeleteToken, procVars, histVars, Lagging, Past, Asked,
        NoEditLeftBehind, Behind
<1>5. QED
    BY <1>1, <1>2, <1>3, <1>4 DEF Database

\* A daemon that is not fetching does something: what matters of it is where
\* its window starts.
LEMMA OtherDaemons ==
    ASSUME IInv, NEW d \in Daemons,
           UNCHANGED <<now, stamp, visible>>,
           fetched \subseteq fetched', dropped \subseteq dropped',
           \A x \in Daemons \ {d} :
                /\ pc'[x] = pc[x]
                /\ last'[x] = last[x]
                /\ to'[x] = to[x]
                /\ known'[x] = known[x]
                /\ todo'[x] = todo[x]
                /\ got'[x] = got[x],
           pc'[d] \in {"top", "fetch"} =>
                last'[d] < now /\ Behind(last[d])' \subseteq dropped',
           pc'[d] = "fetch" => to'[d] <= now,
           pc'[d] = "fetch" =>
                \A e \in visible :
                    /\ TokenOf[e] \notin todo'[d]
                    /\ last'[d] - Overlap <= stamp[e]
                    /\ stamp[e] <= to'[d]
                    => \/ e \in got'[d] \cup dropped'
                       \/ TokenOf[e] \notin known'[d]
                       \/ to'[d] - MaxLag <= stamp[e]
    PROVE  Lagging' /\ Past' /\ Asked' /\ NoEditLeftBehind'
<1>0. TypeOK /\ Lagging /\ Past /\ Asked /\ NoEditLeftBehind
    BY DEF IInv
<1>1. Lagging'
    BY <1>0 DEF Lagging
<1>2. Past'
    BY <1>0 DEF Past
<1>3. Asked'
    BY <1>0 DEF Asked
<1>4. NoEditLeftBehind'
    BY <1>0 DEF NoEditLeftBehind, Behind
<1>5. QED
    BY <1>1, <1>2, <1>3, <1>4

\* A daemon's step when its window stays as it is, or it has none.
LEMMA QuietStep ==
    ASSUME IInv, NEW d \in Daemons,
           Start(d) \/ Acquire(d) \/ TopFails(d) \/ FetchFails(d)
              \/ ShutdownSignal(d) \/ LoseSession(d) \/ Stop(d)
    PROVE  Lagging' /\ Past' /\ Asked' /\ NoEditLeftBehind'
<1>0. TypeOK /\ Past /\ Asked /\ NoEditLeftBehind
    BY DEF IInv
<1>1. UNCHANGED <<now, stamp, visible, fetched, dropped>>
    BY DEF Start, Acquire, TopFails, FetchFails, ShutdownSignal, LoseSession,
           Stop, clockVars, histVars
<1>2. \A x \in Daemons \ {d} :
          /\ pc'[x] = pc[x] /\ last'[x] = last[x] /\ to'[x] = to[x]
          /\ known'[x] = known[x] /\ todo'[x] = todo[x] /\ got'[x] = got[x]
    BY <1>0
    DEF TypeOK, Start, Acquire, TopFails, FetchFails, ShutdownSignal,
        LoseSession, Stop, ReloadTokens, GetTokens, EndIteration, procVars
<1>3. \/ pc'[d] \notin {"top", "fetch"}
      \/ /\ pc'[d] = "top" /\ pc[d] \in {"top", "fetch"}
         /\ last'[d] = last[d]
      \/ UNCHANGED <<pc, procVars>>
    BY <1>0
    DEF TypeOK, Start, Acquire, TopFails, FetchFails, ShutdownSignal,
        LoseSession, Stop, EndIteration
<1>4. pc'[d] \in {"top", "fetch"} =>
          last'[d] < now /\ Behind(last[d])' \subseteq dropped'
    BY <1>0, <1>1, <1>3 DEF Past, NoEditLeftBehind, Behind, procVars
<1>5. pc'[d] = "fetch" => UNCHANGED <<pc, procVars>>
    BY <1>3
<1>6. QED
    BY <1>0, <1>1, <1>2, <1>4, <1>5, OtherDaemons DEF Past, Asked, procVars

\* A daemon takes a new window, or lays out the next one.
LEMMA WindowStep ==
    ASSUME IInv, NEW d \in Daemons, Begin(d) \/ (Iterate(d) /\ pc[d] = "top")
    PROVE  Lagging' /\ Past' /\ Asked' /\ NoEditLeftBehind'
<1>0. TypeOK /\ Past /\ Asked /\ NoEditLeftBehind
    BY DEF IInv
<1>1. CASE Begin(d)
    <2>1. /\ UNCHANGED <<now, stamp, visible, fetched>>
          /\ dropped' = dropped \cup Behind(now - Day)
          /\ pc'[d] = "top" /\ last'[d] = now - Day
          /\ \A x \in Daemons \ {d} :
                /\ pc'[x] = pc[x] /\ last'[x] = last[x] /\ to'[x] = to[x]
                /\ known'[x] = known[x] /\ todo'[x] = todo[x]
                /\ got'[x] = got[x]
        BY <1>0, <1>1 DEF TypeOK, Begin, clockVars
    <2>2. now - Day < now
        BY <1>0, ParamsAssumption DEF TypeOK
    <2>3. Behind(last[d])' \subseteq dropped'
        BY <2>1 DEF Behind
    <2>4. QED
        BY <2>1, <2>2, <2>3, OtherDaemons
<1>2. CASE Iterate(d) /\ pc[d] = "top"
    <2>1. /\ UNCHANGED <<now, stamp, visible, last, fetched, dropped>>
          /\ pc'[d] = "fetch" /\ to'[d] = now /\ todo'[d] = known'[d]
          /\ \A x \in Daemons \ {d} :
                /\ pc'[x] = pc[x] /\ to'[x] = to[x]
                /\ known'[x] = known[x] /\ todo'[x] = todo[x]
                /\ got'[x] = got[x]
        BY <1>0, <1>2
        DEF TypeOK, Iterate, ReloadTokens, GetTokens, clockVars, histVars
    <2>2. last'[d] < now /\ Behind(last[d])' \subseteq dropped'
        BY <1>0, <1>2, <2>1 DEF Past, NoEditLeftBehind, Behind
    <2>3. to'[d] <= now
        BY <1>0, <2>1 DEF TypeOK
    <2>4. QED
        BY <2>1, <2>2, <2>3, OtherDaemons
<1>3. QED
    BY <1>1, <1>2

\* An answer arrives.
LEMMA AnswerStep ==
    ASSUME IInv, NEW d \in Daemons, NEW t \in Tokens,
           FetchToken(d, t) \/ FetchGarbage(d, t)
    PROVE  Lagging' /\ Past' /\ Asked' /\ NoEditLeftBehind'
<1>0. TypeOK /\ Past /\ Asked /\ NoEditLeftBehind
    BY DEF IInv
<1>1. /\ UNCHANGED <<now, stamp, visible, pc, last, to, known, fetched>>
      /\ pc[d] = "fetch"
      /\ dropped \subseteq dropped'
      /\ todo' = [todo EXCEPT ![d] = @ \ {t}]
      /\ got[d] \subseteq got'[d]
      /\ \A x \in Daemons \ {d} : got'[x] = got[x]
      /\ InWindow(d, t) \subseteq got'[d] \cup dropped'
    BY <1>0 DEF TypeOK, FetchToken, FetchGarbage, clockVars, histVars
<1>2. /\ todo'[d] = todo[d] \ {t}
      /\ \A x \in Daemons \ {d} : todo'[x] = todo[x]
    BY <1>0, <1>1 DEF TypeOK
<1>3. last'[d] < now /\ Behind(last[d])' \subseteq dropped' /\ to'[d] <= now
    BY <1>0, <1>1 DEF Past, NoEditLeftBehind, Behind
<1>4. ASSUME NEW e \in visible,
             TokenOf[e] \notin todo'[d],
             last'[d] - Overlap <= stamp[e],
             stamp[e] <= to'[d]
      PROVE  \/ e \in got'[d] \cup dropped'
             \/ TokenOf[e] \notin known'[d]
             \/ to'[d] - MaxLag <= stamp[e]
    <2>1. CASE TokenOf[e] = t
        BY <1>1, <1>4, <2>1 DEF InWindow
    <2>2. CASE TokenOf[e] # t
        BY <1>0, <1>1, <1>2, <1>4, <2>2 DEF Asked
    <2>3. QED
        BY <2>1, <2>2
<1>5. QED
    BY <1>1, <1>2, <1>3, <1>4, OtherDaemons

\* A window is finished, and the next one starts at its end.
LEMMA FinishStep ==
    ASSUME IInv, NEW d \in Daemons, FinishRun(d)
    PROVE  Lagging' /\ Past' /\ Asked' /\ NoEditLeftBehind'
<1>0. TypeOK /\ Lagging /\ Past /\ Asked /\ NoEditLeftBehind
    BY DEF IInv
<1>1. /\ UNCHANGED <<now, stamp, visible, known>>
      /\ fetched' = fetched \cup got[d]
      /\ dropped' = dropped \cup
                      UNION {InWindow(d, t) : t \in Tokens \ known[d]}
      /\ pc[d] = "fetch" /\ todo[d] = {}
      /\ pc'[d] = "top" /\ last'[d] = to[d] - 1
      /\ \A x \in Daemons \ {d} :
            /\ pc'[x] = pc[x] /\ last'[x] = last[x] /\ to'[x] = to[x]
            /\ todo'[x] = todo[x] /\ got'[x] = got[x]
    BY <1>0 DEF TypeOK, FinishRun, EndIteration, clockVars
<1>2. to[d] \in Int /\ now \in Int /\ last[d] \in Int /\ to[d] <= now
    BY <1>0, <1>1 DEF TypeOK, Past
<1>3. ASSUME NEW e \in visible, e \notin fetched',
             stamp[e] < to[d] - 1 - Overlap
      PROVE  e \in dropped'
    <2>1. /\ e \in Edits /\ stamp[e] \in Int /\ TokenOf[e] \in Tokens
          /\ e \notin fetched /\ e \notin got[d]
        BY <1>0, <1>1, <1>3, TokensAssumption DEF TypeOK, Unmade
    <2>2. CASE stamp[e] < last[d] - Overlap
        BY <1>0, <1>1, <1>3, <2>1, <2>2 DEF NoEditLeftBehind, Behind
    <2>3. CASE last[d] - Overlap <= stamp[e]
        <3>1. stamp[e] <= to[d] /\ ~(to[d] - MaxLag <= stamp[e])
            BY <1>2, <1>3, <2>1, ParamsAssumption, LagAssumption
        <3>2. e \in dropped \/ TokenOf[e] \notin known[d]
            BY <1>0, <1>1, <2>1, <2>3, <3>1 DEF Asked
        <3>3. e \in InWindow(d, TokenOf[e])
            BY <2>3, <3>1 DEF InWindow
        <3>4. QED
            BY <1>1, <2>1, <3>2, <3>3
    <2>4. QED
        BY <1>2, <2>1, <2>2, <2>3, ParamsAssumption
<1>4. Behind(last[d])' \subseteq dropped'
    BY <1>1, <1>3 DEF Behind
<1>5. last'[d] < now
    BY <1>1, <1>2
<1>6. QED
    BY <1>1, <1>4, <1>5, OtherDaemons

-----------------------------------------------------------------------------
LEMMA InductiveInit == Init => IInv
<1>1. Init => TypeOK
    BY TypeInit
<1>2. Init => Lagging /\ Past /\ Asked /\ NoEditLeftBehind
    BY ParamsAssumption
    DEF Init, Lagging, Past, Asked, NoEditLeftBehind, Behind, Unmade
<1>3. QED
    BY <1>1, <1>2 DEF IInv

LEMMA InductiveStep == IInv /\ [Next]_vars => IInv'
<1>1. SUFFICES ASSUME IInv, [Next]_vars PROVE IInv'
    OBVIOUS
<1>2. TypeOK'
    BY <1>1, TypeStep DEF IInv
<1>3. CASE Database
    BY <1>1, <1>2, <1>3, DatabaseStep DEF IInv
<1>4. ASSUME NEW d \in Daemons, DaemonStep(d) \/ Trouble(d)
      PROVE  Lagging' /\ Past' /\ Asked' /\ NoEditLeftBehind'
    <2>1. CASE Top(d)
        BY <1>1, <2>1, QuietStep, WindowStep DEF Top
    <2>2. CASE Crash(d)
        BY <1>1, <2>2, QuietStep DEF Crash
    <2>3. CASE Start(d) \/ Acquire(d) \/ TopFails(d) \/ FetchFails(d)
                 \/ ShutdownSignal(d) \/ LoseSession(d)
        BY <1>1, <2>3, QuietStep
    <2>4. CASE Begin(d)
        BY <1>1, <2>4, WindowStep
    <2>5. ASSUME NEW t \in Tokens, FetchToken(d, t) \/ FetchGarbage(d, t)
          PROVE  Lagging' /\ Past' /\ Asked' /\ NoEditLeftBehind'
        BY <1>1, <2>5, AnswerStep
    <2>6. CASE FinishRun(d)
        BY <1>1, <2>6, FinishStep
    <2>7. QED
        BY <1>4, <2>1, <2>2, <2>3, <2>4, <2>5, <2>6 DEF DaemonStep, Trouble
<1>5. CASE UNCHANGED vars
    <2>1. Lagging' /\ Past'
        BY <1>1, <1>5 DEF vars, IInv, Lagging, Past
    <2>2. Asked'
        BY <1>1, <1>5 DEF vars, IInv, Asked
    <2>3. NoEditLeftBehind'
        BY <1>1, <1>5 DEF vars, IInv, NoEditLeftBehind, Behind
    <2>4. QED
        BY <1>2, <2>1, <2>2, <2>3 DEF IInv
<1>6. QED
    BY <1>1, <1>2, <1>3, <1>4, <1>5 DEF Next, IInv

-----------------------------------------------------------------------------
\* The rest of OneMaster.
Locked ==
    /\ LockAtWork
    /\ IsFiniteSet(Strays)
    /\ Cardinality(Strays) <= faults

LEMMA LockInit == Init => OneMaster
<1>1. SUFFICES ASSUME Init PROVE OneMaster
    OBVIOUS
<1>2. Strays = {} /\ LockAtWork /\ faults = 0
    BY <1>1 DEF Init, Strays, LockAtWork
<1>3. QED
    BY <1>1, <1>2, FS_EmptySet, TypeInit DEF OneMaster

\* A step that makes no new stray keeps their number.
LEMMA NoNewStray ==
    ASSUME OneMaster, TypeOK', Strays' \subseteq Strays, faults <= faults'
    PROVE  IsFiniteSet(Strays') /\ Cardinality(Strays') <= faults'
<1>1. IsFiniteSet(Strays) /\ Cardinality(Strays) <= faults
    BY DEF OneMaster
<1>2. /\ IsFiniteSet(Strays')
      /\ Cardinality(Strays') <= Cardinality(Strays)
    BY <1>1, FS_Subset
<1>3. Cardinality(Strays) \in Nat /\ Cardinality(Strays') \in Nat
    BY <1>1, <1>2, FS_CardinalityType
<1>4. faults \in Nat /\ faults' \in Nat
    BY DEF OneMaster, TypeOK
<1>5. QED
    BY <1>1, <1>2, <1>3, <1>4

LEMMA LockStep ==
    ASSUME OneMaster, TypeOK', [Next]_vars
    PROVE  Locked'
<1>0. TypeOK /\ LockAtWork
    BY DEF OneMaster
<1>1. CASE Database \/ UNCHANGED vars
    <2>1. UNCHANGED <<pc, lock>> /\ faults <= faults'
        BY <1>0, <1>1
        DEF Database, Tick, MakeEdit, ShowEdit, AddToken, DeleteToken, vars,
            TypeOK
    <2>2. LockAtWork' /\ Strays' \subseteq Strays
        BY <1>0, <2>1 DEF LockAtWork, Strays
    <2>3. QED
        BY <2>1, <2>2, NoNewStray DEF Locked
<1>2. ASSUME NEW d \in Daemons, DaemonStep(d) \/ Trouble(d)
      PROVE  Locked'
    <2>1. CASE Stop(d) /\ faults <= faults'
        <3>1. /\ pc' = [pc EXCEPT ![d] = "down"]
              /\ lock' = IF lock = d THEN NoOne ELSE lock
            BY <2>1 DEF Stop
        <3>2. LockAtWork' /\ Strays' \subseteq Strays
            BY <1>0, <3>1, NoOneAssumption DEF LockAtWork, Strays, TypeOK
        <3>3. QED
            BY <2>1, <3>2, NoNewStray DEF Locked
    <2>2. CASE Acquire(d)
        <3>1. /\ lock = NoOne /\ lock' = d /\ faults' = faults
              /\ pc' = [pc EXCEPT ![d] = "begin"]
            BY <2>2 DEF Acquire
        <3>2. LockAtWork' /\ Strays' \subseteq Strays
            BY <1>0, <3>1, NoOneAssumption DEF LockAtWork, Strays, TypeOK
        <3>3. QED
            BY <1>0, <3>1, <3>2, NoNewStray DEF Locked, TypeOK
    <2>3. CASE LoseSession(d)
        <3>1. /\ lock' = NoOne /\ faults' = faults + 1 /\ UNCHANGED pc
            BY <2>3 DEF LoseSession
        <3>2. LockAtWork'
            BY <3>1 DEF LockAtWork
        <3>3. Strays' \subseteq Strays \cup {d}
            BY <1>0, <2>3, <3>1 DEF Strays, LoseSession
        <3>4. IsFiniteSet(Strays) /\ Cardinality(Strays) <= faults
            BY DEF OneMaster
        <3>5. /\ IsFiniteSet(Strays \cup {d})
              /\ \/ Cardinality(Strays \cup {d}) = Cardinality(Strays)
                 \/ Cardinality(Strays \cup {d}) = Cardinality(Strays) + 1
            BY <3>4, FS_AddElement
        <3>6. /\ IsFiniteSet(Strays')
              /\ Cardinality(Strays') <= Cardinality(Strays \cup {d})
            BY <3>3, <3>5, FS_Subset
        <3>7. Cardinality(Strays) \in Nat /\ Cardinality(Strays') \in Nat
            BY <3>4, <3>6, FS_CardinalityType
        <3>8. faults \in Nat
            BY <1>0 DEF TypeOK
        <3>9. Cardinality(Strays') <= faults'
            BY <3>1, <3>4, <3>5, <3>6, <3>7, <3>8
        <3>10. QED
            BY <3>2, <3>6, <3>9 DEF Locked
    <2>4. ASSUME UNCHANGED lock, faults <= faults',
                 \/ UNCHANGED pc
                 \/ /\ pc[d] \in {"begin", "top", "fetch"}
                    /\ \E q \in {"top", "fetch"} : pc' = [pc EXCEPT ![d] = q]
                 \/ pc[d] = "down" /\ pc' = [pc EXCEPT ![d] = "lock"]
          PROVE  Locked'
        <3>1. LockAtWork' /\ Strays' \subseteq Strays
            BY <1>0, <2>4, NoOneAssumption DEF LockAtWork, Strays, TypeOK
        <3>2. QED
            BY <2>4, <3>1, NoNewStray DEF Locked
    <2>5. CASE Top(d)
        BY <1>0, <2>1, <2>4, <2>5 DEF Top, Iterate, TypeOK
    <2>6. CASE Crash(d)
        BY <1>0, <2>1, <2>6 DEF Crash, TypeOK
    <2>7. CASE Start(d) \/ Begin(d) \/ FinishRun(d) \/ TopFails(d)
                 \/ FetchFails(d) \/ ShutdownSignal(d)
        BY <1>0, <2>4, <2>7
        DEF Start, Begin, FinishRun, TopFails, FetchFails, ShutdownSignal,
            EndIteration, TypeOK
    <2>8. ASSUME NEW t \in Tokens, FetchToken(d, t) \/ FetchGarbage(d, t)
          PROVE  Locked'
        BY <1>0, <2>4, <2>8 DEF FetchToken, FetchGarbage, TypeOK
    <2>9. QED
        BY <1>2, <2>2, <2>3, <2>5, <2>6, <2>7, <2>8 DEF DaemonStep, Trouble
<1>3. QED
    BY <1>1, <1>2 DEF Next

\* The state keeps its types, only a daemon at work holds the lock, and every
\* master without it has lost a session: for any number of daemons, any
\* restarts, crashes and failed requests.
THEOREM DaemonOneMaster == Spec => []OneMaster
<1>1. OneMaster /\ [Next]_vars => OneMaster'
    <2>1. SUFFICES ASSUME OneMaster, [Next]_vars PROVE OneMaster'
        OBVIOUS
    <2>2. TypeOK'
        BY <2>1, TypeStep DEF OneMaster
    <2>3. QED
        BY <2>1, <2>2, LockStep DEF Locked, OneMaster
<1>2. QED
    BY <1>1, LockInit, PTL DEF Spec

\* No master moves its window past an edit that was not fetched, but for the
\* exceptions that "dropped" lists: however the requests fail, the daemons
\* crash and overlap, and the edits lag.
THEOREM NothingLeftBehind == Spec => []NoEditLeftBehind
<1>1. Spec => []IInv
    BY InductiveInit, InductiveStep, PTL DEF Spec
<1>2. IInv => NoEditLeftBehind
    BY DEF IInv
<1>3. QED
    BY <1>1, <1>2, PTL

=============================================================================
