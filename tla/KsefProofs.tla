----------------------------- MODULE KsefProofs -----------------------------
(***************************************************************************)
(* What the hourly export guarantees, for any returns, items and batch,    *)
(* any number of executions under way at once, any days and any number of  *)
(* lost answers and transactions, items loaded or not.  That an execution  *)
(* ends is liveness and left to TLC; what it rests on is here: somebody    *)
(* can always go on, and every step of an execution brings it nearer to    *)
(* its end.                                                                *)
(***************************************************************************)
EXTENDS KsefSafety, CorrectionProofs, TLAPS

Active == {"storing", "waiting"}

\* A correction is told from no correction, and its parts are what it is of.
LEMMA NumberParts ==
  /\ NoRef \notin Numbers
  /\ \A n \in Numbers : n[1] \in Returns /\ n[2] \in 1..Days /\ n = <<n[1], n[2]>>
  /\ \A r \in Returns, d \in 1..Days : <<r, d>> \in Numbers /\ <<r, d>>[1] = r
BY Parameters DEF Numbers

LEMMA RestingShape ==
  /\ Nothing \in References /\ DOMAIN Nothing = {}
  /\ Resting \in Execution /\ Resting.pc = "resting" /\ Resting.left = {}
  /\ Resting.current = NoRef /\ Resting.written = Nothing
<1>1. Nothing \in [{} -> Numbers]
  BY DEF Nothing
<1>2. Nothing \in References /\ DOMAIN Nothing = {}
  BY <1>1 DEF References
<1> QED  BY <1>2 DEF Resting, At, Execution

\* What an execution has written, it has written for returns.
LEMMA WrittenShape ==
  ASSUME TypeOK, NEW w \in Runs
  PROVE  /\ run[w] \in Execution
         /\ Holds(w) \subseteq Returns
         /\ run[w].written \in [Holds(w) -> Numbers]
<1>1. run[w] \in Execution
  BY DEF TypeOK
<1>2. PICK held \in SUBSET Returns : run[w].written \in [held -> Numbers]
  BY <1>1 DEF Execution, References
<1> QED  BY <1>1, <1>2 DEF Holds

-----------------------------------------------------------------------------
(* Type correctness.                                                       *)

\* The part of the type invariant that is about executions.
Sound ==
  /\ run \in [Runs -> Execution]
  /\ \A v \in Runs :
       /\ run[v].pc \in {"storing", "waiting"} <=> run[v].current # NoRef
       /\ run[v].pc = "resting" => run[v] = Resting
       /\ run[v].current # NoRef => run[v].current[1] \notin run[v].left
       /\ Holds(v) \cap run[v].left = {}
       /\ \A u \in Runs \ {v} : Holds(v) \cap Holds(u) = {}

\* What an execution under way may become: its rows are its own.
Fits(w, pc, left, current, written) ==
  /\ pc \in {"looping", "storing", "waiting"}
  /\ left \in SUBSET Returns
  /\ current \in Numbers \cup {NoRef}
  /\ written \in References
  /\ pc \in Active <=> current # NoRef
  /\ current # NoRef => current[1] \notin left
  /\ (DOMAIN written) \cap left = {}
  /\ \A v \in Runs \ {w} : (DOMAIN written) \cap Holds(v) = {}

LEMMA Goes ==
  ASSUME TypeOK, NEW w \in Runs, NEW pc, NEW left, NEW current, NEW written,
         Fits(w, pc, left, current, written),
         run' = [run EXCEPT ![w] = At(pc, left, current, written)]
  PROVE  Sound'
<1>1. /\ run' \in [Runs -> Execution]
      /\ run'[w] = At(pc, left, current, written)
      /\ \A v \in Runs \ {w} : run'[v] = run[v]
  BY DEF TypeOK, Execution, At, Fits
<1>2. Holds(w)' = DOMAIN written /\ \A v \in Runs \ {w} : Holds(v)' = Holds(v)
  BY <1>1 DEF Holds, At
<1>3. /\ run'[w].pc = pc /\ run'[w].left = left /\ run'[w].current = current
  BY <1>1 DEF At
<1> QED  BY <1>1, <1>2, <1>3 DEF TypeOK, Active, Sound, Fits

\* An execution that stops holds nothing.
LEMMA Stops ==
  ASSUME TypeOK, NEW w \in Runs, run' = [run EXCEPT ![w] = Resting]
  PROVE  Sound'
<1>1. /\ run' \in [Runs -> Execution]
      /\ run'[w] = Resting /\ \A v \in Runs \ {w} : run'[v] = run[v]
  BY RestingShape DEF TypeOK
<1>2. Holds(w)' = {} /\ \A v \in Runs \ {w} : Holds(v)' = Holds(v)
  BY <1>1, RestingShape DEF Holds
<1> QED  BY <1>1, <1>2, RestingShape DEF TypeOK, Sound

\* The references of an execution once it has one more.
LEMMA OneMore ==
  ASSUME TypeOK, NEW w \in Runs, NEW r \in Returns, NEW ref \in Numbers
  PROVE  /\ DOMAIN Written(w, r, ref) = Holds(w) \cup {r}
         /\ Written(w, r, ref) \in References
<1>1. Holds(w) \cup {r} \in SUBSET Returns
  BY WrittenShape
<1>2. Written(w, r, ref) \in [Holds(w) \cup {r} -> Numbers]
  BY WrittenShape DEF Written
<1> QED  BY <1>1, <1>2 DEF Written, References

LEMMA SoundStep ==
  ASSUME TypeOK, NEW w \in Runs, Execute(w) \/ SendUnanswered(w) \/ Lost(w)
  PROVE  Sound'
<1>1. /\ run \in [Runs -> Execution] /\ run[w] \in Execution
      /\ run[w].pc \in Active <=> run[w].current # NoRef
      /\ Holds(w) \subseteq Returns /\ Holds(w) \cap run[w].left = {}
      /\ \A v \in Runs \ {w} : Holds(w) \cap Holds(v) = {}
  BY WrittenShape DEF TypeOK, Active
<1>2. CASE Start(w)
  <2>1. PICK chosen \in SUBSET Pending :
          run' = [run EXCEPT ![w] = At("looping", chosen, NoRef, Nothing)]
    BY <1>2 DEF Start
  <2>2. Fits(w, "looping", chosen, NoRef, Nothing)
    BY RestingShape DEF Pending, Fits, Active
  <2> QED  BY <2>1, <2>2, Goes
<1>3. CASE SendBooked(w)
  <2>1. PICK r \in run[w].left :
          run' = [run EXCEPT ![w] =
            At("storing", run[w].left \ {r}, Number(r), run[w].written)]
    BY <1>3 DEF SendBooked
  <2>2. r \in Returns /\ Number(r) \in Numbers /\ Number(r) # NoRef /\ Number(r)[1] = r
    BY <1>1, <2>1, NumberParts DEF Execution, TypeOK, Number
  <2>3. Fits(w, "storing", run[w].left \ {r}, Number(r), run[w].written)
    BY <1>1, <2>2 DEF Fits, Active, Holds, Execution
  <2> QED  BY <2>1, <2>3, Goes
<1>4. CASE Wait(w)
  <2>1. /\ run' = [run EXCEPT ![w] = At("waiting", run[w].left, run[w].current, run[w].written)]
        /\ run[w].pc = "storing"
    BY <1>4 DEF Wait, FindsHeld
  <2>2. run[w].current # NoRef => run[w].current[1] \notin run[w].left
    BY DEF TypeOK
  <2>3. Fits(w, "waiting", run[w].left, run[w].current, run[w].written)
    BY <1>1, <2>1, <2>2 DEF Fits, Active, Holds, Execution
  <2> QED  BY <2>1, <2>3, Goes
<1>5. CASE Store(w)
  <2> DEFINE r == run[w].current[1]
             written == Written(w, r, run[w].current)
  <2>1. /\ run' = [run EXCEPT ![w] = At("looping", run[w].left, NoRef, written)]
        /\ run[w].pc \in Active
        /\ \A v \in Runs \ {w} : r \notin Holds(v)
    BY <1>5 DEF Store, CanLock, Active
  <2>2. run[w].current \in Numbers /\ r \in Returns
    BY <1>1, <2>1, NumberParts DEF Execution
  <2>3. written \in References /\ DOMAIN written = Holds(w) \cup {r}
    BY <2>2, OneMore
  <2>4. r \notin run[w].left
    BY <2>1 DEF TypeOK, Active
  <2> HIDE DEF written, r
  <2>5. Fits(w, "looping", run[w].left, NoRef, written)
    BY <1>1, <2>1, <2>3, <2>4 DEF Fits, Active, Execution
  <2> QED  BY <2>1, <2>5, Goes
<1>6. CASE DeadlockVictim(w) \/ Commit(w) \/ Lost(w)
  BY <1>6, Stops DEF DeadlockVictim, Commit, Lost
<1>7. CASE SendUnanswered(w)
  <2>1. PICK r \in run[w].left :
          run' = [run EXCEPT ![w] = At("looping", run[w].left \ {r}, NoRef, run[w].written)]
    BY <1>7 DEF SendUnanswered
  <2>2. Fits(w, "looping", run[w].left \ {r}, NoRef, run[w].written)
    BY <1>1 DEF Fits, Active, Holds, Execution
  <2> QED  BY <2>1, <2>2, Goes
<1>8. CASE SkipItem(w)
  <2>1. PICK r \in run[w].left :
          run' = [run EXCEPT ![w] = At("looping", run[w].left \ {r}, NoRef, run[w].written)]
    BY <1>8 DEF SkipItem
  <2>2. Fits(w, "looping", run[w].left \ {r}, NoRef, run[w].written)
    BY <1>1 DEF Fits, Active, Holds, Execution
  <2> QED  BY <2>1, <2>2, Goes
<1> QED  BY <1>2, <1>3, <1>4, <1>5, <1>6, <1>7, <1>8 DEF Execute

\* No step leaves the types.
LEMMA TypeStep ==
  ASSUME TypeOK, [Next]_vars
  PROVE  TypeOK'
<1>1. ASSUME NEW r \in Returns, Refund(r) \/ Close(r) PROVE TypeOK'
  BY <1>1 DEF Refund, Close, TypeOK, Holds
<1>2. ASSUME NextDay PROVE TypeOK'
  BY <1>2, Parameters DEF NextDay, TypeOK, Holds
<1>3. ASSUME NEW n \in Numbers, Book(n) PROVE TypeOK'
  BY <1>3 DEF Book, TypeOK, Holds
<1>4. ASSUME NEW w \in Runs, Execute(w) \/ SendUnanswered(w) \/ Lost(w) PROVE TypeOK'
  <2>1. Sound'
    BY <1>4, SoundStep
  <2>2. CASE Start(w)
    <3>1. overlapped' \in BOOLEAN
      BY <2>2 DEF Start, TypeOK
    <3>2. UNCHANGED <<items, status, reference, erp, day, faults>>
      BY <2>2 DEF Start
    <3> QED  BY <2>1, <3>1, <3>2 DEF TypeOK, Sound
  <2>3. CASE SendBooked(w)
    BY <2>1, <2>3 DEF SendBooked, TypeOK, Sound
  <2>4. CASE SkipItem(w) \/ Wait(w) \/ Store(w) \/ DeadlockVictim(w)
    BY <2>1, <2>4 DEF SkipItem, Wait, Store, DeadlockVictim, TypeOK, Sound
  <2>5. CASE Commit(w)
    <3>1. reference' \in [Returns -> Numbers \cup {NoRef}]
      BY <2>5, WrittenShape DEF Commit, TypeOK
    <3> QED  BY <2>1, <2>5, <3>1 DEF Commit, TypeOK, Sound
  <2>6. CASE SendUnanswered(w)
    <3>1. PICK r \in run[w].left, state \in {"same", "accepted", "booked"} :
            erp' = [erp EXCEPT ![Number(r)] =
              IF state = "same" \/ erp[Number(r)] = "booked" THEN erp[Number(r)] ELSE state]
      BY <2>6 DEF SendUnanswered
    <3>2. Number(r) \in Numbers
      BY NumberParts DEF TypeOK, Execution, Number
    <3>3. erp[Number(r)] \in {"none", "accepted", "booked"}
      BY <3>2 DEF TypeOK
    <3> DEFINE new == IF state = "same" \/ erp[Number(r)] = "booked" THEN erp[Number(r)] ELSE state
    <3>4. new \in {"none", "accepted", "booked"}
      BY <3>3
    <3>5. erp' = [erp EXCEPT ![Number(r)] = new]
      BY <3>1
    <3> HIDE DEF new
    <3>6. erp' \in [Numbers -> {"none", "accepted", "booked"}]
      BY <3>4, <3>5 DEF TypeOK
    <3>7. UNCHANGED <<items, status, reference, day>> /\ overlapped' = overlapped
      BY <2>6 DEF SendUnanswered
    <3>8. faults < MaxFaults /\ faults' = faults + 1
      BY <2>6 DEF SendUnanswered
    <3>9. faults' \in 0..MaxFaults
      BY <3>8, Parameters DEF TypeOK
    <3> QED  BY <2>1, <3>6, <3>7, <3>9 DEF TypeOK, Sound
  <2>7. CASE Lost(w)
    BY <2>1, <2>7, Parameters DEF Lost, TypeOK, Sound
  <2> QED  BY <1>4, <2>2, <2>3, <2>4, <2>5, <2>6, <2>7 DEF Execute
<1>5. ASSUME UNCHANGED vars PROVE TypeOK'
  BY <1>5 DEF vars, TypeOK, Holds
<1> QED  BY <1>1, <1>2, <1>3, <1>4, <1>5 DEF Next

\* Nor is there anything amiss before the first hour.
LEMMA TypeInit == Init => TypeOK
<1> SUFFICES ASSUME Init PROVE TypeOK
  OBVIOUS
<1>1. run \in [Runs -> Execution] /\ \A w \in Runs : run[w] = Resting
  BY RestingShape DEF Init
<1>2. \A w \in Runs : Holds(w) = {}
  BY <1>1, RestingShape DEF Holds
<1>3. day \in 1..Days /\ faults \in 0..MaxFaults
  BY Parameters DEF Init
<1>4. overlapped \in BOOLEAN
  BY DEF Init
<1>5. /\ items \in [Returns -> ItemLists]
      /\ status \in [Returns -> {"open", "refunded", "closed"}]
      /\ reference \in [Returns -> Numbers \cup {NoRef}]
      /\ erp \in [Numbers -> {"none", "accepted", "booked"}]
  BY DEF Init
<1> QED  BY <1>1, <1>2, <1>3, <1>4, <1>5, RestingShape DEF TypeOK

\* Every reachable state of the export is well typed: in particular no return's
\* row is held by two executions (tasks.py:156-160).
THEOREM TypeCorrect == Spec => []TypeOK
BY TypeInit, TypeStep, PTL DEF Spec

-----------------------------------------------------------------------------
(* The inductive invariant.                                                *)

\* The returns an execution has sent and whose references it is about to write
\* or has written, and those besides that it will send.
Concerns(w) == Holds(w) \cup {r \in Returns : run[w].current # NoRef /\ run[w].current[1] = r}
Takes(w) == run[w].left \cup Concerns(w)

\* What an execution carries is the ERP's.
RunBooked ==
  \A w \in Runs :
    /\ run[w].current # NoRef => erp[run[w].current] = "booked"
    /\ \A r \in Holds(w) :
         run[w].written[r][1] = r /\ erp[run[w].written[r]] = "booked"

Alone ==
  ~overlapped =>
    \A v, w \in Runs : run[v].pc # "resting" /\ run[w].pc # "resting" => v = w

\* Alone, an execution deals with returns that have no reference yet.
OnlyPending == ~overlapped => \A w \in Runs : \A r \in Takes(w) : reference[r] = NoRef

\* In fair weather a correction that was sent is remembered.
Remembered ==
  faults = 0 /\ ~overlapped =>
    \A n \in Numbers : erp[n] # "none" =>
      reference[n[1]] # NoRef \/ \E w \in Runs : n[1] \in Concerns(w)

Good ==
  /\ ReferenceIsBooked /\ RunBooked /\ Alone /\ OnlyPending /\ Remembered
  /\ OneCorrectionInFairWeather

Inv == TypeOK /\ Good

\* What one execution going on means for all of them.
LEMMA Moves ==
  ASSUME TypeOK, NEW w \in Runs, NEW pc, NEW left, NEW current, NEW written,
         run' = [run EXCEPT ![w] = At(pc, left, current, written)]
  PROVE  /\ run'[w].pc = pc /\ run'[w].left = left /\ run'[w].current = current
         /\ run'[w].written = written /\ Holds(w)' = DOMAIN written
         /\ \A v \in Runs \ {w} :
              /\ run'[v] = run[v] /\ Holds(v)' = Holds(v)
              /\ Concerns(v)' = Concerns(v) /\ Takes(v)' = Takes(v)
<1>1. /\ run'[w] = At(pc, left, current, written)
      /\ \A v \in Runs \ {w} : run'[v] = run[v]
  BY DEF TypeOK
<1> QED  BY <1>1 DEF At, Holds, Concerns, Takes

\* A resting execution deals with nothing.
LEMMA RestingTakesNothing ==
  ASSUME TypeOK, NEW w \in Runs, run[w].pc = "resting"
  PROVE  run[w].left = {} /\ Holds(w) = {} /\ Concerns(w) = {} /\ Takes(w) = {}
BY RestingShape DEF TypeOK, Holds, Concerns, Takes

\* Alone, what an execution has left to send has never been sent.
LEMMA LeftIsUnsent ==
  ASSUME Inv, faults = 0, ~overlapped, NEW w \in Runs, NEW r \in run[w].left
  PROVE  \A n \in Numbers : n[1] = r => erp[n] = "none"
<1>1. run[w].pc # "resting" /\ r \in Takes(w)
  BY RestingTakesNothing DEF Inv, Takes
<1>2. reference[r] = NoRef
  BY <1>1 DEF Inv, Good, OnlyPending
<1>3. \A v \in Runs \ {w} : Concerns(v) = {}
  BY <1>1, RestingTakesNothing DEF Inv, Good, Alone
<1>4. r \notin Concerns(w)
  BY DEF Inv, TypeOK, Concerns
<1> QED  BY <1>2, <1>3, <1>4 DEF Inv, Good, Remembered

\* Steps of others leave the executions alone.
LEMMA WorldKeeps ==
  ASSUME Inv, UNCHANGED <<reference, run, faults, overlapped>>,
         \A n \in Numbers : /\ erp[n] = "booked" => erp'[n] = "booked"
                            /\ erp'[n] # "none" <=> erp[n] # "none"
  PROVE  Good'
<1>1. \A w \in Runs : Holds(w)' = Holds(w) /\ Concerns(w)' = Concerns(w) /\ Takes(w)' = Takes(w)
  BY DEF Holds, Concerns, Takes
<1>2. ReferenceIsBooked'
  BY DEF Inv, TypeOK, Good, ReferenceIsBooked
<1>3. RunBooked'
  <2>1. \A w \in Runs : /\ run[w].current # NoRef => run[w].current \in Numbers
                        /\ \A r \in Holds(w) : run[w].written[r] \in Numbers
    BY WrittenShape DEF Inv, TypeOK, Execution
  <2> QED  BY <1>1, <2>1 DEF Inv, Good, RunBooked
<1>4. Alone' /\ OnlyPending'
  BY <1>1 DEF Inv, Good, Alone, OnlyPending
<1>5. Remembered'
  BY <1>1 DEF Inv, Good, Remembered
<1>6. OneCorrectionInFairWeather'
  BY DEF Inv, Good, OneCorrectionInFairWeather
<1> QED  BY <1>2, <1>3, <1>4, <1>5, <1>6 DEF Good

\* An execution that was not under way takes a batch.
LEMMA StartKeeps ==
  ASSUME Inv, NEW w \in Runs, Start(w)
  PROVE  Good'
<1>1. PICK chosen \in SUBSET Pending :
        run' = [run EXCEPT ![w] = At("looping", chosen, NoRef, Nothing)]
  BY DEF Start
<1>2. /\ UNCHANGED <<reference, erp, faults>> /\ run[w].pc = "resting"
  BY DEF Start
<1>3. ~overlapped' => ~overlapped /\ \A v \in Runs \ {w} : run[v].pc = "resting"
  BY DEF Start
<1>4. /\ run'[w].left = chosen /\ run'[w].current = NoRef /\ Holds(w)' = {}
      /\ \A v \in Runs \ {w} :
           /\ run'[v] = run[v] /\ Holds(v)' = Holds(v)
           /\ Concerns(v)' = Concerns(v) /\ Takes(v)' = Takes(v)
  <2>1. /\ run'[w] = At("looping", chosen, NoRef, Nothing)
        /\ \A v \in Runs \ {w} : run'[v] = run[v]
    BY <1>1 DEF Inv, TypeOK
  <2> QED  BY <2>1, RestingShape DEF At, Holds, Concerns, Takes
<1>5. Concerns(w)' = {} /\ Concerns(w) = {} /\ Takes(w)' = chosen
  BY <1>2, <1>4, RestingTakesNothing DEF Inv, Concerns, Takes
<1>6. ReferenceIsBooked'
  BY <1>2 DEF Inv, Good, ReferenceIsBooked
<1>7. RunBooked'
  BY <1>2, <1>4 DEF Inv, Good, RunBooked
<1>8. Alone'
  BY <1>3, <1>4 DEF Alone
<1>9. OnlyPending'
  BY <1>2, <1>3, <1>4, <1>5 DEF Inv, Good, OnlyPending, Pending
<1>10. Remembered'
  BY <1>2, <1>3, <1>4, <1>5 DEF Inv, Good, Remembered
<1>11. OneCorrectionInFairWeather'
  BY <1>2, <1>3 DEF Inv, Good, OneCorrectionInFairWeather
<1> QED  BY <1>6, <1>7, <1>8, <1>9, <1>10, <1>11 DEF Good

LEMMA SendBookedKeeps ==
  ASSUME Inv, NEW w \in Runs, SendBooked(w)
  PROVE  Good'
<1>1. PICK r \in run[w].left :
        /\ erp' = [erp EXCEPT ![Number(r)] = "booked"]
        /\ run' = [run EXCEPT ![w] =
             At("storing", run[w].left \ {r}, Number(r), run[w].written)]
  BY DEF SendBooked
<1>2. UNCHANGED <<reference, faults, overlapped>> /\ run[w].pc = "looping"
  BY DEF SendBooked
<1>3. r \in Returns /\ Number(r) \in Numbers /\ Number(r) # NoRef /\ Number(r)[1] = r
  BY NumberParts DEF Inv, TypeOK, Execution, Number
<1>4. /\ run'[w].pc = "storing" /\ run'[w].left = run[w].left \ {r} /\ run'[w].current = Number(r)
      /\ run'[w].written = run[w].written /\ Holds(w)' = Holds(w)
      /\ \A v \in Runs \ {w} :
           /\ run'[v] = run[v] /\ Holds(v)' = Holds(v)
           /\ Concerns(v)' = Concerns(v) /\ Takes(v)' = Takes(v)
  BY <1>1, Moves DEF Inv, Holds
<1>5. run[w].current = NoRef
  BY <1>2 DEF Inv, TypeOK
<1>6. Concerns(w)' = Concerns(w) \cup {r} /\ Takes(w)' = Takes(w)
  BY <1>3, <1>4, <1>5 DEF Concerns, Takes
<1>7. /\ erp'[Number(r)] = "booked"
      /\ \A n \in Numbers \ {Number(r)} : erp'[n] = erp[n]
  BY <1>1, <1>3 DEF Inv, TypeOK
<1>8. ReferenceIsBooked'
  BY <1>2, <1>7 DEF Inv, TypeOK, Good, ReferenceIsBooked
<1>9. RunBooked'
  <2>1. \A v \in Runs : /\ run[v].current # NoRef => run[v].current \in Numbers
                        /\ \A x \in Holds(v) : run[v].written[x] \in Numbers
    BY WrittenShape DEF Inv, TypeOK, Execution
  <2> QED  BY <1>4, <1>7, <2>1 DEF Inv, Good, RunBooked
<1>10. Alone'
  BY <1>2, <1>4 DEF Inv, Good, Alone
<1>11. OnlyPending'
  BY <1>2, <1>4, <1>6 DEF Inv, Good, OnlyPending
<1>12. Remembered'
  <2> SUFFICES ASSUME faults = 0, ~overlapped, NEW n \in Numbers, erp'[n] # "none"
               PROVE  reference[n[1]] # NoRef \/ \E v \in Runs : n[1] \in Concerns(v)'
    BY <1>2 DEF Remembered
  <2>1. CASE n = Number(r)
    BY <1>3, <1>6, <2>1
  <2>2. CASE n # Number(r)
    BY <1>4, <1>6, <1>7, <2>2 DEF Inv, Good, Remembered
  <2> QED  BY <2>1, <2>2
<1>13. OneCorrectionInFairWeather'
  <2> SUFFICES ASSUME faults = 0, ~overlapped, NEW m \in Numbers, NEW n \in Numbers,
                      erp'[m] # "none", erp'[n] # "none", m[1] = n[1]
               PROVE  m = n
    BY <1>2 DEF OneCorrectionInFairWeather
  <2>1. \A x \in Numbers : x[1] = r => erp[x] = "none"
    BY LeftIsUnsent
  <2>2. CASE m[1] = r
    BY <1>7, <2>1, <2>2
  <2>3. CASE m[1] # r
    BY <1>3, <1>7, <2>3 DEF Inv, Good, OneCorrectionInFairWeather
  <2> QED  BY <2>2, <2>3
<1> QED  BY <1>8, <1>9, <1>10, <1>11, <1>12, <1>13 DEF Good

\* An answer that is lost leaves the item, and is remembered as a fault.
LEMMA SendUnansweredKeeps ==
  ASSUME Inv, NEW w \in Runs, SendUnanswered(w)
  PROVE  Good'
<1>1. PICK r \in run[w].left, state \in {"same", "accepted", "booked"} :
        /\ erp' = [erp EXCEPT ![Number(r)] =
             IF state = "same" \/ erp[Number(r)] = "booked" THEN erp[Number(r)] ELSE state]
        /\ run' = [run EXCEPT ![w] = At("looping", run[w].left \ {r}, NoRef, run[w].written)]
  BY DEF SendUnanswered
<1>2. /\ UNCHANGED <<reference, overlapped>> /\ run[w].pc = "looping"
      /\ faults \in Nat /\ faults' = faults + 1
  BY DEF SendUnanswered, Inv, TypeOK
<1>3. faults' # 0
  BY <1>2
<1>4. Number(r) \in Numbers
  BY NumberParts DEF Inv, TypeOK, Execution, Number
<1>5. \A n \in Numbers : erp[n] = "booked" => erp'[n] = "booked"
  BY <1>1, <1>4 DEF Inv, TypeOK
<1>6. /\ run'[w].pc = "looping" /\ run'[w].left = run[w].left \ {r} /\ run'[w].current = NoRef
      /\ run'[w].written = run[w].written /\ Holds(w)' = Holds(w)
      /\ \A v \in Runs \ {w} :
           /\ run'[v] = run[v] /\ Holds(v)' = Holds(v)
           /\ Concerns(v)' = Concerns(v) /\ Takes(v)' = Takes(v)
  BY <1>1, Moves DEF Inv, Holds
<1>7. Takes(w)' \subseteq Takes(w)
  BY <1>6 DEF Takes, Concerns
<1>8. ReferenceIsBooked'
  BY <1>2, <1>5 DEF Inv, TypeOK, Good, ReferenceIsBooked
<1>9. RunBooked'
  <2>1. \A v \in Runs : /\ run[v].current # NoRef => run[v].current \in Numbers
                        /\ \A x \in Holds(v) : run[v].written[x] \in Numbers
    BY WrittenShape DEF Inv, TypeOK, Execution
  <2> QED  BY <1>5, <1>6, <2>1 DEF Inv, Good, RunBooked
<1>10. Alone'
  BY <1>2, <1>6 DEF Inv, Good, Alone
<1>11. OnlyPending'
  BY <1>2, <1>6, <1>7 DEF Inv, Good, OnlyPending
<1>12. Remembered' /\ OneCorrectionInFairWeather'
  BY <1>3 DEF Remembered, OneCorrectionInFairWeather
<1> QED  BY <1>8, <1>9, <1>10, <1>11, <1>12 DEF Good

LEMMA SkipItemKeeps ==
  ASSUME Inv, NEW w \in Runs, SkipItem(w)
  PROVE  Good'
<1>1. PICK r \in run[w].left :
        run' = [run EXCEPT ![w] = At("looping", run[w].left \ {r}, NoRef, run[w].written)]
  BY DEF SkipItem
<1>2. UNCHANGED <<reference, erp, faults, overlapped>> /\ run[w].pc = "looping"
  BY DEF SkipItem
<1>3. /\ run'[w].pc = "looping" /\ run'[w].left = run[w].left \ {r} /\ run'[w].current = NoRef
      /\ run'[w].written = run[w].written /\ Holds(w)' = Holds(w)
      /\ \A v \in Runs \ {w} :
           /\ run'[v] = run[v] /\ Holds(v)' = Holds(v)
           /\ Concerns(v)' = Concerns(v) /\ Takes(v)' = Takes(v)
  BY <1>1, Moves DEF Inv, Holds
<1>4. run[w].current = NoRef
  BY <1>2 DEF Inv, TypeOK
<1>5. Concerns(w)' = Concerns(w) /\ Takes(w)' \subseteq Takes(w)
  BY <1>3, <1>4 DEF Concerns, Takes
<1>6. ReferenceIsBooked' /\ RunBooked'
  BY <1>2, <1>3 DEF Inv, Good, ReferenceIsBooked, RunBooked
<1>7. Alone' /\ OnlyPending'
  BY <1>2, <1>3, <1>5 DEF Inv, Good, Alone, OnlyPending
<1>8. Remembered'
  BY <1>2, <1>3, <1>5 DEF Inv, Good, Remembered
<1>9. OneCorrectionInFairWeather'
  BY <1>2 DEF Inv, Good, OneCorrectionInFairWeather
<1> QED  BY <1>6, <1>7, <1>8, <1>9 DEF Good

LEMMA WaitKeeps ==
  ASSUME Inv, NEW w \in Runs, Wait(w)
  PROVE  Good'
<1>1. /\ run' = [run EXCEPT ![w] = At("waiting", run[w].left, run[w].current, run[w].written)]
      /\ UNCHANGED <<reference, erp, faults, overlapped>> /\ run[w].pc = "storing"
  BY DEF Wait, FindsHeld
<1>2. /\ run'[w].pc = "waiting" /\ run'[w].left = run[w].left /\ run'[w].current = run[w].current
      /\ run'[w].written = run[w].written /\ Holds(w)' = Holds(w)
      /\ \A v \in Runs \ {w} :
           /\ run'[v] = run[v] /\ Holds(v)' = Holds(v)
           /\ Concerns(v)' = Concerns(v) /\ Takes(v)' = Takes(v)
  BY <1>1, Moves DEF Inv, Holds
<1>3. Concerns(w)' = Concerns(w) /\ Takes(w)' = Takes(w)
  BY <1>2 DEF Concerns, Takes
<1>4. ReferenceIsBooked' /\ RunBooked'
  BY <1>1, <1>2 DEF Inv, Good, ReferenceIsBooked, RunBooked
<1>5. Alone' /\ OnlyPending'
  BY <1>1, <1>2, <1>3 DEF Inv, Good, Alone, OnlyPending
<1>6. Remembered'
  BY <1>1, <1>2, <1>3 DEF Inv, Good, Remembered
<1>7. OneCorrectionInFairWeather'
  BY <1>1 DEF Inv, Good, OneCorrectionInFairWeather
<1> QED  BY <1>4, <1>5, <1>6, <1>7 DEF Good

LEMMA StoreKeeps ==
  ASSUME Inv, NEW w \in Runs, Store(w)
  PROVE  Good'
<1> DEFINE r == run[w].current[1]
           written == Written(w, r, run[w].current)
<1>1. /\ run' = [run EXCEPT ![w] = At("looping", run[w].left, NoRef, written)]
      /\ UNCHANGED <<reference, erp, faults, overlapped>> /\ run[w].pc \in Active
  BY DEF Store, CanLock, Active
<1>2. run[w].current \in Numbers /\ run[w].current # NoRef /\ r \in Returns
  BY <1>1, NumberParts DEF Inv, TypeOK, Execution, Active
<1>3. /\ DOMAIN written = Holds(w) \cup {r} /\ written[r] = run[w].current
      /\ \A x \in Holds(w) \ {r} : written[x] = run[w].written[x]
  BY DEF Written
<1> HIDE DEF written
<1>4. /\ run'[w].pc = "looping" /\ run'[w].left = run[w].left /\ run'[w].current = NoRef
      /\ run'[w].written = written /\ Holds(w)' = DOMAIN written
      /\ \A v \in Runs \ {w} :
           /\ run'[v] = run[v] /\ Holds(v)' = Holds(v)
           /\ Concerns(v)' = Concerns(v) /\ Takes(v)' = Takes(v)
  BY <1>1, Moves DEF Inv
<1>5. Concerns(w)' = Concerns(w) /\ Takes(w)' = Takes(w)
  BY <1>2, <1>3, <1>4 DEF Concerns, Takes
<1>6. ReferenceIsBooked'
  BY <1>1 DEF Inv, Good, ReferenceIsBooked
<1>7. RunBooked'
  BY <1>1, <1>2, <1>3, <1>4 DEF Inv, Good, RunBooked
<1>8. Alone' /\ OnlyPending'
  BY <1>1, <1>4, <1>5 DEF Inv, Good, Alone, OnlyPending, Active
<1>9. Remembered'
  BY <1>1, <1>4, <1>5 DEF Inv, Good, Remembered
<1>10. OneCorrectionInFairWeather'
  BY <1>1 DEF Inv, Good, OneCorrectionInFairWeather
<1> QED  BY <1>6, <1>7, <1>8, <1>9, <1>10 DEF Good

\* An execution that stops.
LEMMA RestMoves ==
  ASSUME TypeOK, NEW w \in Runs, run' = [run EXCEPT ![w] = Resting]
  PROVE  /\ run'[w].pc = "resting" /\ run'[w].current = NoRef /\ Holds(w)' = {}
         /\ Takes(w)' = {}
         /\ \A v \in Runs \ {w} :
              /\ run'[v] = run[v] /\ Holds(v)' = Holds(v)
              /\ Concerns(v)' = Concerns(v) /\ Takes(v)' = Takes(v)
<1>1. run'[w] = Resting /\ \A v \in Runs \ {w} : run'[v] = run[v]
  BY DEF TypeOK
<1> QED  BY <1>1, RestingShape DEF Holds, Concerns, Takes

\* A victim of a deadlock has overlapped with another, and a loss is a fault.
LEMMA AbortKeeps ==
  ASSUME Inv, NEW w \in Runs, DeadlockVictim(w) \/ Lost(w)
  PROVE  Good'
<1>1. /\ run' = [run EXCEPT ![w] = Resting] /\ UNCHANGED <<reference, erp, overlapped>>
  BY DEF DeadlockVictim, Lost
<1>2. /\ run'[w].pc = "resting" /\ run'[w].current = NoRef /\ Holds(w)' = {}
      /\ Takes(w)' = {}
      /\ \A v \in Runs \ {w} :
           /\ run'[v] = run[v] /\ Holds(v)' = Holds(v) /\ Takes(v)' = Takes(v)
  BY <1>1, RestMoves DEF Inv
<1>3. overlapped \/ faults' # 0
  <2>1. CASE DeadlockVictim(w)
    BY <2>1 DEF DeadlockVictim, Deadlocked, Waits, Inv, Good, Alone
  <2>2. CASE Lost(w)
    BY <2>2 DEF Lost, Inv, TypeOK
  <2> QED  BY <2>1, <2>2
<1>4. ReferenceIsBooked' /\ RunBooked'
  BY <1>1, <1>2 DEF Inv, Good, ReferenceIsBooked, RunBooked
<1>5. Alone' /\ OnlyPending'
  BY <1>1, <1>2 DEF Inv, Good, Alone, OnlyPending
<1>6. Remembered' /\ OneCorrectionInFairWeather'
  BY <1>1, <1>3 DEF Remembered, OneCorrectionInFairWeather
<1> QED  BY <1>4, <1>5, <1>6 DEF Good

LEMMA CommitKeeps ==
  ASSUME Inv, NEW w \in Runs, Commit(w)
  PROVE  Good'
<1>1. /\ run' = [run EXCEPT ![w] = Resting] /\ UNCHANGED <<erp, faults, overlapped>>
      /\ run[w].pc = "looping" /\ run[w].left = {}
      /\ reference' = [r \in Returns |-> IF r \in Holds(w) THEN run[w].written[r] ELSE reference[r]]
  BY DEF Commit
<1>2. /\ run'[w].pc = "resting" /\ run'[w].current = NoRef /\ Holds(w)' = {}
      /\ Takes(w)' = {}
      /\ \A v \in Runs \ {w} :
           /\ run'[v] = run[v] /\ Holds(v)' = Holds(v)
           /\ Concerns(v)' = Concerns(v) /\ Takes(v)' = Takes(v)
  BY <1>1, RestMoves DEF Inv
<1>3. /\ Holds(w) \subseteq Returns /\ \A r \in Holds(w) : run[w].written[r] \in Numbers
      /\ Concerns(w) = Holds(w)
  BY <1>1, WrittenShape DEF Inv, TypeOK, Concerns
<1>4. ReferenceIsBooked'
  BY <1>1 DEF Inv, Good, ReferenceIsBooked, RunBooked
<1>5. RunBooked'
  BY <1>1, <1>2 DEF Inv, Good, RunBooked
<1>6. Alone'
  BY <1>1, <1>2 DEF Inv, Good, Alone
<1>7. OnlyPending'
  <2>1. ~overlapped => \A v \in Runs \ {w} : Takes(v) = {}
    BY <1>1, RestingTakesNothing DEF Inv, Good, Alone
  <2> QED  BY <1>1, <1>2, <2>1 DEF OnlyPending
<1>8. Remembered'
  <2> SUFFICES ASSUME faults = 0, ~overlapped, NEW n \in Numbers, erp[n] # "none"
               PROVE  reference'[n[1]] # NoRef \/ \E v \in Runs : n[1] \in Concerns(v)'
    BY <1>1 DEF Remembered
  <2>1. n[1] \in Returns
    BY NumberParts
  <2>2. CASE n[1] \in Holds(w)
    BY <1>1, <1>3, <2>1, <2>2, NumberParts
  <2>3. CASE n[1] \notin Holds(w)
    <3>1. reference'[n[1]] = reference[n[1]]
      BY <1>1, <2>1, <2>3
    <3> QED  BY <1>2, <1>3, <2>3, <3>1 DEF Inv, Good, Remembered
  <2> QED  BY <2>2, <2>3
<1>9. OneCorrectionInFairWeather'
  BY <1>1 DEF Inv, Good, OneCorrectionInFairWeather
<1> QED  BY <1>4, <1>5, <1>6, <1>7, <1>8, <1>9 DEF Good

LEMMA InvStep ==
  ASSUME Inv, [Next]_vars
  PROVE  Inv'
<1>1. TypeOK'
  BY TypeStep DEF Inv
<1>2. ASSUME NEW w \in Runs, Execute(w) \/ SendUnanswered(w) \/ Lost(w) PROVE Good'
  BY <1>2, StartKeeps, SendBookedKeeps, SendUnansweredKeeps, SkipItemKeeps, WaitKeeps, StoreKeeps,
     AbortKeeps, CommitKeeps DEF Execute
<1>3. ASSUME NEW r \in Returns, Refund(r) \/ Close(r) PROVE Good'
  <2>1. UNCHANGED <<reference, erp, run, faults, overlapped>>
    BY <1>3 DEF Refund, Close
  <2> QED  BY <2>1, WorldKeeps
<1>4. ASSUME NextDay \/ UNCHANGED vars PROVE Good'
  <2>1. UNCHANGED <<reference, erp, run, faults, overlapped>>
    BY <1>4 DEF NextDay, vars
  <2> QED  BY <2>1, WorldKeeps
<1>5. ASSUME NEW n \in Numbers, Book(n) PROVE Good'
  <2>1. UNCHANGED <<reference, run, faults, overlapped>>
    BY <1>5 DEF Book
  <2>2. \A m \in Numbers : /\ erp[m] = "booked" => erp'[m] = "booked"
                           /\ erp'[m] # "none" <=> erp[m] # "none"
    BY <1>5 DEF Book, Inv, TypeOK
  <2> QED  BY <2>1, <2>2, WorldKeeps
<1> QED  BY <1>1, <1>2, <1>3, <1>4, <1>5 DEF Next, Inv

LEMMA InvInit == Init => Inv
<1> SUFFICES ASSUME Init PROVE Good
  BY TypeInit DEF Inv
<1>1. \A w \in Runs : run[w] = Resting
  BY DEF Init
<1>2. \A w \in Runs : run[w].pc = "resting" /\ run[w].current = NoRef /\ Takes(w) = {} /\ Holds(w) = {}
  BY <1>1, RestingShape DEF Takes, Concerns, Holds
<1>3. ReferenceIsBooked /\ RunBooked /\ Alone /\ OnlyPending
  BY <1>2 DEF Init, ReferenceIsBooked, RunBooked, Alone, OnlyPending
<1>4. Remembered /\ OneCorrectionInFairWeather
  BY DEF Init, Remembered, OneCorrectionInFairWeather
<1> QED  BY <1>3, <1>4 DEF Good

\* The invariant the results below share.
THEOREM Invariant == Spec => []Inv
BY InvInit, InvStep, PTL DEF Spec

-----------------------------------------------------------------------------
(* What it is for.                                                         *)

\* A stored reference is the ERP's own for that very return, however executions
\* overlap, deadlock or are lost (tasks.py:146-160).
THEOREM StoredIsBooked == Spec => []ReferenceIsBooked
<1>1. Inv => ReferenceIsBooked
  BY DEF Inv, Good
<1> QED  BY <1>1, Invariant, PTL

\* It takes a fault or an overlap for a return to have two corrections
\* (tasks.py:116-121, ksef_export.py:106).
THEOREM OneCorrection == Spec => []OneCorrectionInFairWeather
<1>1. Inv => OneCorrectionInFairWeather
  BY DEF Inv, Good
<1> QED  BY <1>1, Invariant, PTL

\* Until executions overlap, a stored reference stands, and nothing more is sent
\* for its return (tasks.py:116-121, 156-160).
THEOREM StoredEndsIt == Spec => ReferenceEndsIt
<1> DEFINE Ends ==
      ~overlapped => \A r \in Returns : reference[r] # NoRef =>
        /\ reference'[r] = reference[r]
        /\ \A d \in 1..Days : erp[<<r, d>>] = "none" => erp'[<<r, d>>] = "none"
<1>1. Inv /\ [Next]_vars => [Ends]_vars
  <2> SUFFICES ASSUME Inv, Next, ~overlapped, NEW r \in Returns, reference[r] # NoRef
               PROVE  /\ reference'[r] = reference[r]
                      /\ \A d \in 1..Days : erp[<<r, d>>] = "none" => erp'[<<r, d>>] = "none"
    BY DEF vars
  <2>1. \A w \in Runs : r \notin Takes(w)
    BY DEF Inv, Good, OnlyPending
  <2> DEFINE Stands == /\ reference'[r] = reference[r]
                       /\ \A d \in 1..Days : erp[<<r, d>>] = "none" => erp'[<<r, d>>] = "none"
  <2>2. ASSUME UNCHANGED <<reference, erp>> PROVE Stands
    BY <2>2
  <2>3. ASSUME NEW n \in Numbers, Book(n) PROVE Stands
    BY <2>3, NumberParts DEF Book, Inv, TypeOK
  <2>4. ASSUME NEW w \in Runs, Commit(w) PROVE Stands
    BY <2>1, <2>4 DEF Commit, Takes, Concerns
  <2>5. ASSUME NEW w \in Runs, SendBooked(w) \/ SendUnanswered(w) PROVE Stands
    <3>1. PICK x \in run[w].left : \E new : erp' = [erp EXCEPT ![Number(x)] = new]
      BY <2>5 DEF SendBooked, SendUnanswered
    <3>2. x # r /\ Number(x)[1] = x /\ UNCHANGED reference
      BY <2>1, <2>5 DEF Takes, Number, SendBooked, SendUnanswered
    <3>3. \A d \in 1..Days : <<r, d>> \in Numbers /\ <<r, d>> # Number(x)
      BY <3>2, NumberParts DEF Number
    <3> QED  BY <3>1, <3>2, <3>3 DEF Inv, TypeOK
  <2> QED
    BY <2>2, <2>3, <2>4, <2>5 DEF Next, Refund, Close, NextDay, Execute, Start, SkipItem, Wait,
       Store, DeadlockVictim, Lost
<1> QED  BY <1>1, Invariant, PTL DEF Spec, ReferenceEndsIt

\* As shipped the relationship is not loaded: no execution ever sends anything, no
\* return ever gets a reference (tasks.py:117, return_model.py:67,
\* ksef_export.py:181).
THEOREM NothingIsSent ==
  ASSUME ~ItemsLoaded
  PROVE  Spec => []((\A n \in Numbers : erp[n] = "none") /\ \A r \in Returns : reference[r] = NoRef)
<1> DEFINE Unsent == (\A n \in Numbers : erp[n] = "none") /\ \A w \in Runs : run[w].current = NoRef
           None == \A w \in Runs : Holds(w) = {}
           Blank == \A r \in Returns : reference[r] = NoRef
<1>1. Init => Unsent /\ None /\ Blank
  BY RestingShape DEF Init, Holds
<1>2. ASSUME TypeOK, Unsent, None, Blank, [Next]_vars PROVE (Unsent /\ None /\ Blank)'
  <2>1. ASSUME UNCHANGED <<erp, run, reference>> PROVE (Unsent /\ None /\ Blank)'
    BY <1>2, <2>1 DEF Holds
  <2>2. ASSUME NEW w \in Runs, Start(w) \/ SkipItem(w) PROVE (Unsent /\ None /\ Blank)'
    <3>1. UNCHANGED <<erp, reference>>
      BY <2>2 DEF Start, SkipItem
    <3>2. \E left, written : /\ DOMAIN written = {}
                             /\ run' = [run EXCEPT ![w] = At("looping", left, NoRef, written)]
      <4>1. CASE Start(w)
        BY <4>1, RestingShape DEF Start
      <4>2. CASE SkipItem(w)
        <5>1. PICK r \in run[w].left :
                run' = [run EXCEPT ![w] = At("looping", run[w].left \ {r}, NoRef, run[w].written)]
          BY <4>2 DEF SkipItem
        <5>2. DOMAIN run[w].written = {}
          BY <1>2 DEF Holds
        <5> QED  BY <5>1, <5>2
      <4> QED  BY <2>2, <4>1, <4>2
    <3>3. PICK left, written : /\ DOMAIN written = {}
                               /\ run' = [run EXCEPT ![w] = At("looping", left, NoRef, written)]
      BY <3>2
    <3>4. /\ run'[w].current = NoRef /\ Holds(w)' = {}
          /\ \A v \in Runs \ {w} : run'[v] = run[v] /\ Holds(v)' = Holds(v)
      <4>1. /\ run'[w] = At("looping", left, NoRef, written)
            /\ \A v \in Runs \ {w} : run'[v] = run[v]
        BY <1>2, <3>3 DEF TypeOK
      <4> QED  BY <3>3, <4>1 DEF At, Holds
    <3> QED  BY <1>2, <3>1, <3>4
  <2>3. ASSUME NEW w \in Runs, DeadlockVictim(w) \/ Commit(w) \/ Lost(w)
        PROVE  (Unsent /\ None /\ Blank)'
    <3>1. run' = [run EXCEPT ![w] = Resting] /\ UNCHANGED erp
      BY <2>3 DEF DeadlockVictim, Commit, Lost
    <3>2. \A r \in Returns : reference'[r] = reference[r]
      BY <1>2, <2>3 DEF DeadlockVictim, Commit, Lost
    <3> QED  BY <1>2, <3>1, <3>2, RestMoves
  <2>4. ASSUME NEW w \in Runs, SendBooked(w) \/ SendUnanswered(w) \/ Wait(w) \/ Store(w) PROVE FALSE
    BY <1>2, <2>4 DEF SendBooked, SendUnanswered, Wait, FindsHeld, Store, CanLock, TypeOK
  <2>5. ASSUME NEW n \in Numbers, Book(n) PROVE FALSE
    BY <1>2, <2>5 DEF Book
  <2> QED  BY <1>2, <2>1, <2>2, <2>3, <2>4, <2>5 DEF Next, Execute, Refund, Close, NextDay, vars
<1> QED  BY <1>1, <1>2, TypeCorrect, PTL DEF Spec

\* Whatever is sent adds up, lines and totals, for any lists of items: their
\* amounts of any sign, their quantities accepted or not; VAT and code are those of
\* the rate for items with a net price and a rate (ksef_export.py:48-81).
THEOREM SentAddsUp == Spec => []CorrectionAddsUp
<1>1. Inv => CorrectionAddsUp
  <2> SUFFICES ASSUME Inv, NEW r \in Returns PROVE AddsUp(items[r])
    BY DEF CorrectionAddsUp
  <2>1. items[r] \in ItemLists
    BY DEF Inv, TypeOK
  <2>2. items[r] \in Seq(Item) /\ NoQuantity \notin Int
    BY <2>1, Parameters
  <2> QED  BY <2>2, EveryCorrectionAddsUp
<1> QED  BY <1>1, Invariant, PTL

-----------------------------------------------------------------------------
(* What is out of the batch's sight stays so, whatever overlaps.           *)

\* The task does not select the return and no execution has it in its batch.
OutOfSight(r) ==
  /\ status[r] = "closed" \/ reference[r] # NoRef
  /\ \A w \in Runs : r \notin Takes(w)

Frozen(r) ==
  /\ reference'[r] = reference[r]
  /\ \A d \in 1..Days : erp[<<r, d>>] = "none" => erp'[<<r, d>>] = "none"

\* An execution takes up nothing but what it selects when it starts.
LEMMA TakesLess ==
  ASSUME TypeOK, NEW w \in Runs,
         SkipItem(w) \/ SendBooked(w) \/ SendUnanswered(w) \/ Wait(w) \/ Store(w)
  PROVE  \A v \in Runs : Takes(v)' \subseteq Takes(v)
<1>0. /\ run[w] \in Execution
      /\ run[w].current # NoRef => run[w].current[1] \in Takes(w)
  BY NumberParts DEF TypeOK, Execution, Takes, Concerns
<1>1. ASSUME NEW pc, NEW left, NEW current, NEW written,
             run' = [run EXCEPT ![w] = At(pc, left, current, written)],
             left \cup DOMAIN written \subseteq Takes(w),
             current # NoRef => current[1] \in Takes(w)
      PROVE  \A v \in Runs : Takes(v)' \subseteq Takes(v)
  <2>0. run'[w] = At(pc, left, current, written) /\ \A v \in Runs \ {w} : run'[v] = run[v]
    BY <1>1 DEF TypeOK
  <2>1. /\ run'[w].left = left /\ run'[w].current = current /\ Holds(w)' = DOMAIN written
        /\ \A v \in Runs \ {w} : Takes(v)' = Takes(v)
    BY <2>0 DEF At, Takes, Concerns, Holds
  <2>2. ASSUME NEW x \in Takes(w)' PROVE x \in Takes(w)
    <3>1. x \in left \/ x \in DOMAIN written \/ (current # NoRef /\ current[1] = x)
      BY <2>1, <2>2 DEF Takes, Concerns
    <3> QED  BY <1>1, <3>1
  <2> QED  BY <2>1, <2>2
<1>2. CASE SendBooked(w)
  <2>1. PICK r \in run[w].left :
          run' = [run EXCEPT ![w] = At("storing", @.left \ {r}, Number(r), @.written)]
    BY <1>2 DEF SendBooked
  <2>2. run' = [run EXCEPT ![w] = At("storing", run[w].left \ {r}, Number(r), run[w].written)]
    BY <2>1
  <2>3. Number(r)[1] = r
    BY DEF Number
  <2>4. (run[w].left \ {r}) \cup DOMAIN run[w].written \subseteq Takes(w) /\ r \in Takes(w)
    BY <2>1 DEF Takes, Concerns, Holds
  <2> DEFINE number == Number(r)
  <2>5. number[1] \in Takes(w)
    BY <2>3, <2>4
  <2> HIDE DEF number
  <2>6. run' = [run EXCEPT ![w] = At("storing", run[w].left \ {r}, number, run[w].written)]
    BY <2>2 DEF number
  <2> QED  BY <1>1, <2>4, <2>5, <2>6
<1>3. CASE SkipItem(w) \/ SendUnanswered(w)
  <2>1. PICK r \in run[w].left :
          run' = [run EXCEPT ![w] = At("looping", @.left \ {r}, NoRef, @.written)]
    BY <1>3 DEF SkipItem, SendUnanswered
  <2>2. run' = [run EXCEPT ![w] = At("looping", run[w].left \ {r}, NoRef, run[w].written)]
    BY <2>1
  <2>3. (run[w].left \ {r}) \cup DOMAIN run[w].written \subseteq Takes(w)
    BY DEF Takes, Concerns, Holds
  <2> QED  BY <1>1, <2>2, <2>3
<1>4. CASE Wait(w)
  <2>1. run' = [run EXCEPT ![w] = At("waiting", run[w].left, run[w].current, run[w].written)]
    BY <1>4 DEF Wait
  <2>2. run[w].left \cup DOMAIN run[w].written \subseteq Takes(w)
    BY DEF Takes, Concerns, Holds
  <2> QED  BY <1>0, <1>1, <2>1, <2>2
<1>5. CASE Store(w)
  <2> DEFINE r == run[w].current[1]
             new == Written(w, r, run[w].current)
  <2>1. run' = [run EXCEPT ![w] = At("looping", run[w].left, NoRef, new)]
    BY <1>5 DEF Store
  <2>2. run[w].current # NoRef
    BY <1>5 DEF Store, CanLock, TypeOK
  <2>3. run[w].left \cup DOMAIN new \subseteq Takes(w)
    BY <1>0, <2>2 DEF Written, Takes, Concerns
  <2> HIDE DEF new
  <2> QED  BY <1>1, <2>1, <2>3
<1> QED  BY <1>2, <1>3, <1>4, <1>5

\* The task selects "refunded" returns without a reference only (tasks.py:116-121):
\* once a return is closed or has its reference and no execution has it in its
\* batch, its reference is what it is for good and nothing more is sent for it,
\* however executions overlap, deadlock or are lost.  So a return closed before
\* it was selected is never exported, and one whose reference is stored is
\* exported again only by an execution that had selected it before.
THEOREM OutOfSightForGood ==
  Spec => [][\A r \in Returns : OutOfSight(r) => Frozen(r) /\ OutOfSight(r)']_vars
<1> DEFINE Stays == \A r \in Returns : OutOfSight(r) => Frozen(r) /\ OutOfSight(r)'
<1>1. TypeOK /\ [Next]_vars => [Stays]_vars
  <2> SUFFICES ASSUME TypeOK, Next, NEW r \in Returns, OutOfSight(r)
               PROVE  Frozen(r) /\ OutOfSight(r)'
    OBVIOUS
  <2>1. \A w \in Runs : r \notin Takes(w) /\ run[w] \in Execution
    BY DEF OutOfSight, TypeOK
  <2>2. ASSUME UNCHANGED run PROVE \A w \in Runs : r \notin Takes(w)'
    BY <2>1, <2>2 DEF Takes, Concerns, Holds
  <2>3. CASE (\E x \in Returns : Refund(x) \/ Close(x)) \/ NextDay
    <3>1. UNCHANGED <<reference, erp, run>> /\ (status[r] = "closed" => status'[r] = "closed")
      BY <2>3 DEF Refund, Close, NextDay, TypeOK
    <3> QED  BY <2>2, <3>1 DEF OutOfSight, Frozen
  <2>4. ASSUME NEW n \in Numbers, Book(n) PROVE Frozen(r) /\ OutOfSight(r)'
    <3>1. UNCHANGED <<reference, status, run>>
      BY <2>4 DEF Book
    <3>2. Frozen(r)
      BY <2>4, <3>1, NumberParts DEF Book, TypeOK, Frozen
    <3> QED  BY <2>2, <3>1, <3>2 DEF OutOfSight
  <2>5. ASSUME NEW w \in Runs, Start(w) PROVE Frozen(r) /\ OutOfSight(r)'
    <3>1. PICK chosen \in SUBSET Pending : run' = [run EXCEPT ![w] = At("looping", chosen, NoRef, Nothing)]
      BY <2>5 DEF Start
    <3>2. r \notin chosen
      BY <3>1 DEF OutOfSight, Pending
    <3>0. /\ run'[w] = At("looping", chosen, NoRef, Nothing)
          /\ \A v \in Runs \ {w} : run'[v] = run[v]
      BY <3>1 DEF TypeOK
    <3>3. r \notin Takes(w)' /\ \A v \in Runs \ {w} : Takes(v)' = Takes(v)
      BY <3>0, <3>2, RestingShape DEF At, Takes, Concerns, Holds
    <3>4. UNCHANGED <<reference, status, erp>>
      BY <2>5 DEF Start
    <3> QED  BY <2>1, <3>3, <3>4 DEF OutOfSight, Frozen
  <2>6. ASSUME NEW w \in Runs, SendBooked(w) \/ SendUnanswered(w) PROVE Frozen(r) /\ OutOfSight(r)'
    <3>1. PICK x \in run[w].left : \E new : erp' = [erp EXCEPT ![Number(x)] = new]
      BY <2>6 DEF SendBooked, SendUnanswered
    <3>2. x # r /\ Number(x)[1] = x /\ UNCHANGED <<reference, status>>
      BY <2>1, <2>6 DEF Takes, Number, SendBooked, SendUnanswered
    <3>3. \A d \in 1..Days : <<r, d>> \in Numbers /\ <<r, d>> # Number(x)
      BY <3>2, NumberParts DEF Number
    <3>4. Frozen(r)
      BY <3>1, <3>2, <3>3 DEF TypeOK, Frozen
    <3>5. \A v \in Runs : r \notin Takes(v)'
      BY <2>1, <2>6, TakesLess
    <3> QED  BY <3>2, <3>4, <3>5 DEF OutOfSight
  <2>7. ASSUME NEW w \in Runs, SkipItem(w) \/ Wait(w) \/ Store(w)
        PROVE  Frozen(r) /\ OutOfSight(r)'
    <3>1. UNCHANGED <<reference, status, erp>>
      BY <2>7 DEF SkipItem, Wait, Store
    <3>2. \A v \in Runs : r \notin Takes(v)'
      BY <2>1, <2>7, TakesLess
    <3> QED  BY <3>1, <3>2 DEF OutOfSight, Frozen
  <2>8. ASSUME NEW w \in Runs, DeadlockVictim(w) \/ Commit(w) \/ Lost(w)
        PROVE  Frozen(r) /\ OutOfSight(r)'
    <3>1. reference'[r] = reference[r] /\ UNCHANGED <<status, erp>>
      BY <2>1, <2>8 DEF DeadlockVictim, Commit, Lost, Takes, Concerns
    <3>2. run' = [run EXCEPT ![w] = At("resting", {}, NoRef, Nothing)]
      BY <2>8 DEF DeadlockVictim, Commit, Lost, Resting
    <3>0. /\ run'[w] = At("resting", {}, NoRef, Nothing)
          /\ \A v \in Runs \ {w} : run'[v] = run[v]
      BY <3>2 DEF TypeOK
    <3>3. r \notin Takes(w)' /\ \A v \in Runs \ {w} : Takes(v)' = Takes(v)
      BY <3>0, RestingShape DEF At, Takes, Concerns, Holds
    <3> QED  BY <2>1, <3>1, <3>3 DEF OutOfSight, Frozen
  <2> QED
    BY <2>3, <2>4, <2>5, <2>6, <2>7, <2>8 DEF Next, Execute
<1> QED  BY <1>1, TypeCorrect, PTL DEF Spec

-----------------------------------------------------------------------------
(* Somebody can always go on.                                              *)

\* What an execution is about to write it has not written before.
OwnRow == \A w \in Runs : run[w].current # NoRef => run[w].current[1] \notin Holds(w)

LEMMA OwnRowStep ==
  ASSUME TypeOK, OwnRow, [Next]_vars
  PROVE  OwnRow'
<1> SUFFICES ASSUME NEW w \in Runs, run'[w].current # NoRef
             PROVE  run'[w].current[1] \notin Holds(w)'
  BY DEF OwnRow
<1>1. ASSUME run'[w] = run[w] PROVE run'[w].current[1] \notin Holds(w)'
  BY <1>1 DEF OwnRow, Holds
<1>2. ASSUME NEW v \in Runs, Execute(v) \/ SendUnanswered(v) \/ Lost(v)
      PROVE  run'[w].current[1] \notin Holds(w)'
  <2>1. DOMAIN run = Runs /\ Resting.current = NoRef
    BY RestingShape DEF TypeOK
  <2>2. CASE w # v
    <3>1. run'[w] = run[w]
      BY <1>2, <2>1, <2>2 DEF Execute, Start, SkipItem, SendBooked, SendUnanswered, Wait, Store,
         DeadlockVictim, Commit, Lost
    <3> QED  BY <1>1, <3>1
  <2>3. CASE w = v
    <3>1. CASE Start(w) \/ Store(w) \/ SkipItem(w) \/ SendUnanswered(w)
      BY <2>1, <3>1 DEF Start, Store, SkipItem, SendUnanswered, At
    <3>2. CASE DeadlockVictim(w) \/ Commit(w) \/ Lost(w)
      BY <2>1, <3>2 DEF DeadlockVictim, Commit, Lost
    <3>3. CASE Wait(w)
      <4>1. run'[w].current = run[w].current /\ run'[w].written = run[w].written
        BY <2>1, <3>3 DEF Wait, At
      <4> QED  BY <4>1 DEF OwnRow, Holds
    <3>4. CASE SendBooked(w)
      <4>1. PICK r \in run[w].left :
              /\ run'[w].current = Number(r) /\ run'[w].written = run[w].written
        BY <2>1, <3>4 DEF SendBooked, At
      <4>2. Holds(w)' = Holds(w) /\ r \notin Holds(w) /\ Number(r)[1] = r
        BY <4>1 DEF Holds, TypeOK, Number
      <4> QED  BY <4>1, <4>2
    <3> QED  BY <1>2, <2>3, <3>1, <3>2, <3>3, <3>4 DEF Execute
  <2> QED  BY <2>2, <2>3
<1>3. ASSUME UNCHANGED run PROVE run'[w].current[1] \notin Holds(w)'
  BY <1>1, <1>3
<1> QED  BY <1>2, <1>3 DEF Next, vars, Refund, Close, NextDay, Book

\* An execution can send, end, write its row, begin to wait for it, or be the
\* victim of a deadlock.
CanGoOn(w) ==
  run[w].pc = "looping" \/ CanLock(w) \/ FindsHeld(w) \/ Deadlocked(w)

\* Executions that can not are waiting for one another.
LEMMA StuckWait ==
  ASSUME TypeOK, OwnRow, NEW w \in Runs, run[w].pc # "resting", \A v \in Runs : ~CanGoOn(v)
  PROVE  run[w].pc = "waiting" /\ \E u \in Runs \ {w} : run[u].pc # "resting" /\ Waits(w, u)
<1>1. run[w].pc \in {"storing", "waiting"}
  BY DEF CanGoOn, TypeOK, Execution
<1>2. ~CanLock(w) /\ ~FindsHeld(w)
  BY DEF CanGoOn
<1>3. ASSUME NEW u \in Runs, NEW r \in Holds(u) PROVE run[u].pc # "resting"
  BY <1>3, RestingShape DEF TypeOK, Holds
<1>4. CASE run[w].pc = "waiting"
  <2>1. PICK u \in Runs \ {w} : run[w].current[1] \in Holds(u)
    BY <1>1, <1>2, <1>4 DEF CanLock
  <2> QED  BY <1>3, <1>4, <2>1 DEF Waits
<1>5. CASE run[w].pc = "storing"
  <2>1. \A u \in Runs \ {w} : run[w].current[1] \notin Holds(u)
    BY <1>2, <1>5 DEF FindsHeld
  <2>2. PICK v \in Runs \ {w} : run[v].pc = "waiting" /\ run[v].current[1] = run[w].current[1]
    BY <1>1, <1>2, <2>1 DEF CanLock
  <2>3. PICK u \in Runs \ {v} : run[v].current[1] \in Holds(u)
    BY <2>2 DEF CanGoOn, CanLock
  <2>4. u = w
    BY <2>1, <2>2, <2>3
  <2>5. run[w].current[1] \notin Holds(w)
    BY <1>1 DEF TypeOK, OwnRow
  <2> QED  BY <2>2, <2>3, <2>4, <2>5
<1> QED  BY <1>1, <1>4, <1>5

\* Among finitely many that each wait for another of them, some wait in a circle.
LEMMA WaitersCircle ==
  ASSUME NEW waiters \in SUBSET Runs, waiters # {},
         \A v \in waiters : \E u \in waiters \ {v} : Waits(v, u)
  PROVE  \E w \in waiters : Deadlocked(w)
<1> DEFINE Closed(S) == S # {} /\ \A v \in S : \E u \in S \ {v} : Waits(v, u)
           T == {S \in SUBSET waiters : Closed(S)}
<1>1. IsFiniteSet(waiters)
  BY Parameters, FS_Subset
<1>2. waiters \in T
  OBVIOUS
<1> HIDE DEF T
<1>3. PICK S \in T : \A y \in T : y \subseteq S => y = S
  <2>1. T \in SUBSET (SUBSET waiters) /\ T # {}
    BY <1>2 DEF T
  <2> QED  BY <1>1, <2>1, SmallestSet
<1>4. S \subseteq waiters /\ Closed(S)
  BY DEF T
<1>5. ASSUME NEW v \in S, \A x \in S \ {v} : ~Waits(x, v) PROVE FALSE
  <2>1. \A x \in S \ {v} : \E u \in (S \ {v}) \ {x} : Waits(x, u)
    BY <1>4, <1>5
  <2>2. S \ {v} # {}
    BY <1>4
  <2>3. S \ {v} \in T
    BY <1>4, <2>1, <2>2 DEF T
  <2>4. S \ {v} = S
    BY <1>3, <2>3
  <2> QED  BY <2>4
<1>6. \A v \in S : \E u, x \in S \ {v} : Waits(v, u) /\ Waits(x, v)
  BY <1>4, <1>5
<1>7. PICK w \in S : TRUE
  BY <1>4
<1>8. S \in SUBSET Runs
  BY <1>4
<1> QED  BY <1>4, <1>6, <1>7, <1>8 DEF Deadlocked

LEMMA SomebodyCan ==
  ASSUME TypeOK, OwnRow, NEW w \in Runs, run[w].pc # "resting"
  PROVE  \E v \in Runs : CanGoOn(v)
<1> SUFFICES ASSUME \A v \in Runs : ~CanGoOn(v) PROVE FALSE
  OBVIOUS
<1> DEFINE waiters == {v \in Runs : run[v].pc # "resting"}
<1>1. w \in waiters
  OBVIOUS
<1>2. \A v \in waiters : \E u \in waiters \ {v} : Waits(v, u)
  BY StuckWait
<1>3. \E v \in waiters : Deadlocked(v)
  <2> HIDE DEF waiters
  <2>1. waiters \in SUBSET Runs /\ waiters # {}
    BY <1>1 DEF waiters
  <2> QED  BY <1>2, <2>1, WaitersCircle
<1> QED  BY <1>3 DEF CanGoOn

\* However many executions of the task overlap and whatever rows they wait for,
\* as long as one is under way one can go on: breaking deadlocks is enough
\* (tasks.py:115-170).
THEOREM NobodyIsStuck ==
  Spec => []((\E w \in Runs : run[w].pc # "resting") => \E v \in Runs : CanGoOn(v))
<1>1. Init => OwnRow
  BY RestingShape DEF Init, OwnRow
<1>2. Inv => TypeOK
  BY DEF Inv
<1>3. TypeOK /\ OwnRow => ((\E w \in Runs : run[w].pc # "resting") => \E v \in Runs : CanGoOn(v))
  BY SomebodyCan
<1>4. TypeOK /\ OwnRow /\ [Next]_vars => OwnRow'
  BY OwnRowStep
<1> QED  BY <1>1, <1>2, <1>3, <1>4, Invariant, PTL DEF Spec

\* How far an execution is from its end.
Remaining(w) ==
  3 * Cardinality(run[w].left)
    + (IF run[w].pc = "storing" THEN 2 ELSE IF run[w].pc = "waiting" THEN 1 ELSE 0)

\* Every step of an execution ends it or brings it nearer to its end, and no
\* step of another does anything to it: with the above, a batch comes to its end
\* (tasks.py:124-170).
THEOREM ExecutionsComeToAnEnd ==
  Spec => [][ \A w \in Runs : run'[w] # run[w] =>
                \/ run[w] = Resting /\ Start(w)
                \/ run'[w] = Resting
                \/ Remaining(w) \in Nat /\ Remaining(w)' \in Nat
                   /\ Remaining(w)' < Remaining(w) ]_vars
<1> DEFINE Nearer(w) ==
      \/ run[w] = Resting /\ Start(w)
      \/ run'[w] = Resting
      \/ Remaining(w) \in Nat /\ Remaining(w)' \in Nat /\ Remaining(w)' < Remaining(w)
           Step == \A w \in Runs : run'[w] # run[w] => Nearer(w)
<1>1. ASSUME Inv, NEW w \in Runs, Execute(w) \/ SendUnanswered(w) \/ Lost(w) PROVE Nearer(w)
  <2> DEFINE n == Cardinality(run[w].left)
  <2>1. DOMAIN run = Runs /\ run[w] \in Execution /\ (run[w].pc = "resting" => run[w] = Resting)
    BY <1>1 DEF Inv, TypeOK
  <2>2. IsFiniteSet(run[w].left) /\ n \in Nat
    BY <2>1, Parameters, FS_Subset, FS_CardinalityType DEF Execution
  <2>3. \A r \in run[w].left : Cardinality(run[w].left \ {r}) = n - 1 /\ n - 1 \in Nat
    <3> TAKE r \in run[w].left
    <3>1. Cardinality(run[w].left \ {r}) = n - 1
      BY <2>2, FS_RemoveElement
    <3>2. IsFiniteSet(run[w].left \ {r})
      BY <2>2, FS_RemoveElement
    <3>3. Cardinality(run[w].left \ {r}) \in Nat
      BY <3>2, FS_CardinalityType
    <3> QED  BY <3>1, <3>3
  <2>4. CASE Start(w)
    BY <2>1, <2>4 DEF Start
  <2>5. CASE DeadlockVictim(w) \/ Commit(w) \/ Lost(w)
    BY <2>1, <2>5 DEF DeadlockVictim, Commit, Lost
  <2>6. CASE SkipItem(w) \/ SendBooked(w) \/ SendUnanswered(w)
    <3>1. PICK r \in run[w].left, pc \in {"looping", "storing"} :
            run'[w].pc = pc /\ run'[w].left = run[w].left \ {r} /\ run[w].pc = "looping"
      BY <2>1, <2>6 DEF SkipItem, SendBooked, SendUnanswered, At
    <3>2. Remaining(w) = 3 * n
      BY <2>2, <3>1 DEF Remaining
    <3>3. Cardinality(run'[w].left) = n - 1 /\ n - 1 \in Nat
      BY <2>3, <3>1
    <3>4. Remaining(w)' = 3 * (n - 1) \/ Remaining(w)' = 3 * (n - 1) + 2
      BY <3>1, <3>3 DEF Remaining
    <3> HIDE DEF n
    <3> QED  BY <2>2, <3>2, <3>3, <3>4
  <2>7. CASE Wait(w)
    <3>1. run'[w].pc = "waiting" /\ run'[w].left = run[w].left /\ run[w].pc = "storing"
      BY <2>1, <2>7 DEF Wait, FindsHeld, At
    <3>2. Remaining(w) = 3 * n + 2 /\ Remaining(w)' = 3 * n + 1
      BY <3>1 DEF Remaining
    <3> QED  BY <2>2, <3>2
  <2>8. CASE Store(w)
    <3>1. run'[w].pc = "looping" /\ run'[w].left = run[w].left
          /\ run[w].pc \in {"storing", "waiting"}
      BY <2>1, <2>8 DEF Store, CanLock, At
    <3>2. Remaining(w) \in {3 * n + 2, 3 * n + 1} /\ Remaining(w)' = 3 * n
      BY <2>2, <3>1 DEF Remaining
    <3> QED  BY <2>2, <3>2
  <2> QED  BY <1>1, <2>4, <2>5, <2>6, <2>7, <2>8 DEF Execute
<1>2. Inv /\ [Next]_vars => [Step]_vars
  <2> SUFFICES ASSUME Inv, Next, NEW w \in Runs, run'[w] # run[w] PROVE Nearer(w)
    BY DEF vars
  <2>1. DOMAIN run = Runs
    BY DEF Inv, TypeOK
  <2>2. ASSUME NEW v \in Runs, Execute(v) \/ SendUnanswered(v) \/ Lost(v), v # w
        PROVE  run'[w] = run[w]
    BY <2>1, <2>2 DEF Execute, Start, SkipItem, SendBooked, SendUnanswered, Wait, Store,
       DeadlockVictim, Commit, Lost
  <2>3. \E v \in Runs : Execute(v) \/ SendUnanswered(v) \/ Lost(v)
    BY DEF Next, Refund, Close, NextDay, Book
  <2> HIDE DEF Nearer
  <2> QED  BY <1>1, <2>2, <2>3
<1> QED  BY <1>2, Invariant, PTL DEF Spec
=============================================================================
