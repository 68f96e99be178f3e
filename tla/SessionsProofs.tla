--------------------------- MODULE SessionsProofs ---------------------------
(***************************************************************************)
(* The safety properties of Sessions, proved for any calls, consoles and   *)
(* ports, any length of the clock, any number of deaths and faults.        *)
(***************************************************************************)
EXTENDS Sessions, TLAPS

-----------------------------------------------------------------------------
(* The inductive invariant.                                                *)

\* A call not made has written nothing.
NoneIsSilent == \A k \in Calls : call[k].st = "none" => ~call[k].spoke

\* A file is that of a call of the second in its name.
FileIsOfCall ==
  \A p \in 0 .. Seconds : file[p] # None =>
    call[file[p]].st # "none" /\ call[file[p]].at = p

\* A call writes to a file of its own second.
FdIsOfCall ==
  \A k \in Calls : call[k].st \in {"running", "dead"} =>
    /\ call[k].fd \in Calls
    /\ call[call[k].fd].st # "none" /\ call[call[k].fd].at = call[k].at

\* A call that has its second to itself writes to the file it created, and nobody else
\* does.
FileIsOwn ==
  \A k \in Calls : call[k].st \in {"running", "dead"} /\ ~Shared(k) =>
    /\ call[k].fd = k /\ file[call[k].at] = k
    /\ wrote[k] = IF call[k].spoke THEN {k} ELSE {}

IInv == TypeOK /\ NoneIsSilent /\ FileIsOfCall /\ FdIsOfCall /\ FileIsOwn /\ OutputIsOwn

-----------------------------------------------------------------------------
(* Calls and their seconds.                                                *)

Quotas == [{"deaths", "faults"} -> Nat]

\* What TypeOK says of the calls, and of the consoles.
CallsTyped ==
  /\ now \in 0 .. Seconds
  /\ call \in [Calls -> CallStates]
  /\ \A k \in Calls : call[k].tmo => call[k].st \in {"running", "dead"}
  /\ file \in [0 .. Seconds -> Calls \cup {None}]
  /\ wrote \in [Calls -> SUBSET Calls]
ConsolesTyped ==
  con \in [Consoles -> ConsoleStates] /\ procs \subseteq Consoles /\ reaping \in BOOLEAN

\* What TypeOK says, part by part.
LEMMA Typed ==
  TypeOK <=> user \in {"exec", "console"} /\ CallsTyped /\ ConsolesTyped /\ quota \in Quotas
  BY DEF TypeOK, CallsTyped, ConsolesTyped, Quotas

\* A call that was made stays made, in its second.
Persists ==
  \A j \in Calls : call[j].st # "none" => call'[j].st # "none" /\ call'[j].at = call[j].at

\* So who shared its second shares it for ever.
LEMMA SharedStays ==
  ASSUME Persists, NEW k \in Calls, call[k].st # "none", Shared(k)
  PROVE Shared(k)'
  BY DEF Persists, Shared

\* A quota is spent one by one.
LEMMA Spends ==
  ASSUME quota \in Quotas, NEW k \in {"deaths", "faults"}, Spend(k)
  PROVE quota' \in Quotas
<1>1. /\ quota[k] \in Nat /\ quota[k] > 0 /\ quota' = [quota EXCEPT ![k] = quota[k] - 1]
    BY DEF Spend, Quotas
<1>2. quota[k] - 1 \in Nat
    BY <1>1
<1> QED
    BY <1>1, <1>2 DEF Quotas

\* The initial states satisfy the invariant.
LEMMA InitHolds == Init => IInv
<1> SUFFICES ASSUME Init PROVE IInv
    OBVIOUS
<1>1. Seconds \in Nat /\ Deaths \in Nat /\ Faults \in Nat
    BY SessionsAssumption DEF SessionsAssumption
<1>2. NoCall \in CallStates /\ NoCall.st = "none" /\ ~NoCall.tmo /\ ~NoCall.spoke
    <2>1. 0 \in 0 .. Seconds
        BY <1>1
    <2> QED
        BY <2>1 DEF NoCall, CallStates
<1>3. NoConsole \in ConsoleStates
    BY DEF NoConsole, ConsoleStates
<1>4. \A k \in Calls : call[k] = NoCall
    BY DEF Init
<1>5. quota \in Quotas
    <2>1. quota = [deaths |-> Deaths, faults |-> Faults]
        BY DEF Init
    <2> QED
        BY <1>1, <2>1 DEF Quotas
<1>6. CallsTyped
    <2>1. 0 \in 0 .. Seconds
        BY <1>1
    <2> QED
        BY <1>2, <2>1 DEF Init, CallsTyped
<1>7. ConsolesTyped
    BY <1>3 DEF Init, ConsolesTyped
<1>8. TypeOK
    BY <1>5, <1>6, <1>7, Typed DEF Init
<1>9. NoneIsSilent /\ FdIsOfCall /\ FileIsOwn /\ OutputIsOwn
    BY <1>2, <1>4 DEF NoneIsSilent, FdIsOfCall, FileIsOwn, OutputIsOwn
<1>10. FileIsOfCall
    BY DEF Init, FileIsOfCall
<1> QED
    BY <1>8, <1>9, <1>10 DEF IInv

-----------------------------------------------------------------------------
(* What each step keeps of the invariant.                                  *)

\* A step of the consoles, or of the clock.
LEMMA CallsAreKept ==
  ASSUME IInv, UNCHANGED <<user, call, file, wrote>>, now' \in 0 .. Seconds, ConsolesTyped',
         quota' \in Quotas
  PROVE IInv'
<1>1. TypeOK'
    BY DEF IInv, TypeOK, ConsolesTyped, Quotas
<1>2. NoneIsSilent' /\ FileIsOfCall' /\ FdIsOfCall'
    BY DEF IInv, NoneIsSilent, FileIsOfCall, FdIsOfCall
<1>3. FileIsOwn' /\ OutputIsOwn'
    BY DEF IInv, FileIsOwn, OutputIsOwn, Shared
<1> QED
    BY <1>1, <1>2, <1>3 DEF IInv

\* A call opens the file of its second: its own one, unless another call of that second
\* was there first.
LEMMA OpeningHolds ==
  ASSUME IInv, NEW k \in Calls, call[k].st = "none", OpenCapture(k),
         NEW e \in CallStates, call' = [call EXCEPT ![k] = e],
         e.at = now, ~e.spoke, e.tmo => e.st = "running",
         \/ e.st = "running" /\ e.fd = Opened(k)
         \/ e.st = "failed",
         UNCHANGED <<now, consoleVars>>, quota' \in Quotas
  PROVE IInv'
<1> DEFINE o == Opened(k)
<1>1. /\ CallsTyped /\ ConsolesTyped /\ None \notin Calls
      /\ file' = [file EXCEPT ![now] = o] /\ wrote' = [wrote EXCEPT ![o] = {}]
      /\ o = IF file[now] = None THEN k ELSE file[now]
    BY Typed, SessionsAssumption DEF IInv, OpenCapture, Opened, Outpath, SessionsAssumption
<1>2. o \in Calls
    BY <1>1 DEF CallsTyped
<1> HIDE DEF o
<1>3. /\ call' \in [Calls -> CallStates] /\ call'[k] = e
      /\ \A j \in Calls : j # k => call'[j] = call[j]
    BY <1>1 DEF CallsTyped
<1>4. /\ \A p \in 0 .. Seconds : file'[p] = IF p = now THEN o ELSE file[p]
      /\ \A j \in Calls : wrote'[j] = IF j = o THEN {} ELSE wrote[j]
      /\ file' \in [0 .. Seconds -> Calls \cup {None}] /\ wrote' \in [Calls -> SUBSET Calls]
    BY <1>1, <1>2 DEF CallsTyped
<1>5. TypeOK'
    <2>1. CallsTyped'
        BY <1>1, <1>3, <1>4 DEF CallsTyped
    <2>2. ConsolesTyped' /\ user' = user
        BY <1>1 DEF ConsolesTyped, consoleVars
    <2> QED
        BY <2>1, <2>2 DEF IInv, TypeOK, CallsTyped, ConsolesTyped, Quotas
<1>6. Persists
    BY <1>3 DEF Persists
<1>7. o # k => call[o].st # "none" /\ call[o].at = now
    BY <1>1, <1>2 DEF IInv, FileIsOfCall, CallsTyped
<1>8. NoneIsSilent'
    BY <1>3 DEF IInv, NoneIsSilent
<1>9. FileIsOfCall'
    BY <1>1, <1>2, <1>3, <1>4, <1>7 DEF IInv, FileIsOfCall, CallsTyped
<1>10. FdIsOfCall'
    <2>1. o \in Calls /\ call'[o].st # "none" /\ call'[o].at = now
        BY <1>2, <1>3, <1>7
    <2>2. Opened(k) = o
        BY DEF o
    <2> QED
        BY <1>3, <2>1, <2>2 DEF IInv, FdIsOfCall
<1>11. ASSUME NEW j \in Calls, j # k, call[j].st # "none", call[j].at = now
       PROVE Shared(j)' /\ Shared(k)'
    BY <1>3, <1>11 DEF Shared
<1>12. FileIsOwn'
    <2>1. ASSUME NEW j \in Calls, j # k, call'[j].st \in {"running", "dead"}, ~Shared(j)'
          PROVE /\ call'[j].fd = j /\ file'[call'[j].at] = j
                /\ wrote'[j] = IF call'[j].spoke THEN {j} ELSE {}
        <3>1. call'[j] = call[j] /\ call[j].at \in 0 .. Seconds
            BY <1>1, <1>3, <2>1 DEF CallsTyped, CallStates
        <3>2. ~Shared(j)
            BY <1>6, <2>1, <3>1, SharedStays
        <3>3. call[j].at # now
            BY <1>11, <2>1, <3>1
        <3>4. j # o
            BY <1>7, <2>1, <3>3
        <3> QED
            BY <1>4, <2>1, <3>1, <3>2, <3>3, <3>4 DEF IInv, FileIsOwn
    <2>2. ASSUME call'[k].st \in {"running", "dead"}, ~Shared(k)'
          PROVE /\ call'[k].fd = k /\ file'[call'[k].at] = k
                /\ wrote'[k] = IF call'[k].spoke THEN {k} ELSE {}
        <3>1. o = k
            BY <1>2, <1>7, <1>11, <2>2
        <3>2. call'[k].fd = o
            BY <1>3, <2>2 DEF o
        <3> QED
            BY <1>1, <1>3, <1>4, <3>1, <3>2 DEF CallsTyped
    <2> QED
        BY <2>1, <2>2 DEF FileIsOwn
<1>13. OutputIsOwn'
    BY <1>3, <1>6, SharedStays DEF IInv, OutputIsOwn
<1> QED
    BY <1>5, <1>8, <1>9, <1>10, <1>12, <1>13 DEF IInv

\* exec_async.
LEMMA ExecHolds ==
  ASSUME IInv, NEW k \in Calls, Exec(k) \/ ExecFails(k)
  PROVE IInv'
<1>1. /\ call[k] \in CallStates /\ ~call[k].spoke /\ call[k].st = "none" /\ ~call[k].tmo
      /\ now \in 0 .. Seconds /\ quota \in Quotas
      /\ file \in [0 .. Seconds -> Calls \cup {None}]
    <2>1. CallsTyped /\ quota \in Quotas
        BY Typed DEF IInv
    <2>2. call[k].st = "none"
        BY DEF Exec, ExecFails
    <2> QED
        BY <2>1, <2>2 DEF CallsTyped, IInv, NoneIsSilent
<1>2. CASE Exec(k)
    <2> DEFINE o == Opened(k)
               e == [call[k] EXCEPT !.st = "running", !.at = now, !.fd = o, !.tmo = TRUE]
    <2>1. call' = [call EXCEPT ![k] = e]
        BY <1>2 DEF Exec
    <2>2. o \in Calls \cup {None}
        BY <1>1 DEF Opened, Outpath
    <2>3. Opened(k) = o
        OBVIOUS
    <2> HIDE DEF o
    <2>4. e \in CallStates /\ e.at = now /\ ~e.spoke /\ e.st = "running" /\ e.fd = o
        BY <1>1, <2>2 DEF CallStates
    <2> HIDE DEF e
    <2> QED
        BY <1>1, <1>2, <2>1, <2>3, <2>4, OpeningHolds DEF Exec
<1>3. CASE ExecFails(k)
    <2> DEFINE e == [call[k] EXCEPT !.st = "failed", !.at = now]
    <2>1. call' = [call EXCEPT ![k] = e]
        BY <1>3 DEF ExecFails
    <2>2. e \in CallStates /\ e.at = now /\ ~e.spoke /\ e.st = "failed" /\ e.tmo = call[k].tmo
        BY <1>1 DEF CallStates
    <2>3. quota' \in Quotas
        BY <1>1, <1>3, Spends DEF ExecFails
    <2> HIDE DEF e
    <2> QED
        BY <1>1, <1>3, <2>1, <2>2, <2>3, OpeningHolds DEF ExecFails
<1> QED
    BY <1>2, <1>3

\* A call that runs or is dead goes on: nothing it wrote changes.
LEMMA GoingOnHolds ==
  ASSUME IInv, NEW k \in Calls, call[k].st \in {"running", "dead"},
         NEW e \in CallStates, call' = [call EXCEPT ![k] = e],
         e.st \in {"running", "dead"}, e.at = call[k].at, e.fd = call[k].fd,
         e.spoke = call[k].spoke,
         UNCHANGED <<now, file, wrote, consoleVars, quota>>
  PROVE IInv'
<1>1. CallsTyped /\ ConsolesTyped
    BY Typed DEF IInv
<1>2. /\ call' \in [Calls -> CallStates] /\ call'[k] = e
      /\ \A j \in Calls : j # k => call'[j] = call[j]
    BY <1>1 DEF CallsTyped
<1>3. TypeOK'
    <2>1. CallsTyped'
        BY <1>1, <1>2 DEF CallsTyped
    <2> QED
        BY <2>1 DEF IInv, TypeOK, CallsTyped, consoleVars
<1>4. Persists
    BY <1>2 DEF Persists
<1>5. NoneIsSilent' /\ FileIsOfCall' /\ FdIsOfCall'
    <2>1. NoneIsSilent'
        BY <1>2 DEF IInv, NoneIsSilent
    <2>2. FileIsOfCall'
        BY <1>1, <1>4 DEF IInv, FileIsOfCall, Persists, CallsTyped
    <2>3. FdIsOfCall'
        <3>1. ASSUME NEW j \in Calls, call'[j].st \in {"running", "dead"}
              PROVE /\ call'[j].fd \in Calls
                    /\ call'[call'[j].fd].st # "none" /\ call'[call'[j].fd].at = call'[j].at
            <4>1. call[j].st \in {"running", "dead"} /\ call'[j].fd = call[j].fd
                  /\ call'[j].at = call[j].at
                BY <1>2, <3>1
            <4>2. call[j].fd \in Calls /\ call[call[j].fd].st # "none"
                  /\ call[call[j].fd].at = call[j].at
                BY <4>1 DEF IInv, FdIsOfCall
            <4> QED
                BY <1>4, <4>1, <4>2 DEF Persists
        <3> QED
            BY <3>1 DEF FdIsOfCall
    <2> QED
        BY <2>1, <2>2, <2>3
<1>6. FileIsOwn'
    <2>1. ASSUME NEW j \in Calls, call'[j].st \in {"running", "dead"}, ~Shared(j)'
          PROVE /\ call'[j].fd = j /\ file'[call'[j].at] = j
                /\ wrote'[j] = IF call'[j].spoke THEN {j} ELSE {}
        <3>1. /\ call[j].st \in {"running", "dead"} /\ call'[j].fd = call[j].fd
              /\ call'[j].at = call[j].at /\ call'[j].spoke = call[j].spoke
            BY <1>2, <2>1
        <3>2. ~Shared(j)
            BY <1>4, <2>1, <3>1, SharedStays
        <3> QED
            BY <3>1, <3>2 DEF IInv, FileIsOwn
    <2> QED
        BY <2>1 DEF FileIsOwn
<1>7. OutputIsOwn'
    BY <1>2, <1>4, SharedStays DEF IInv, OutputIsOwn
<1> QED
    BY <1>3, <1>5, <1>6, <1>7 DEF IInv

\* A worker ends, or is killed for its time.
LEMMA EndHolds ==
  ASSUME IInv, NEW k \in Calls, WorkerEnds(k) \/ ExecTimesOut(k)
  PROVE IInv'
<1>1. call[k] \in CallStates /\ call \in [Calls -> CallStates]
      /\ (call[k].tmo => call[k].st \in {"running", "dead"})
    BY DEF IInv, TypeOK
<1>2. CASE WorkerEnds(k)
    <2> DEFINE e == [call[k] EXCEPT !.st = "dead"]
    <2>1. call' = [call EXCEPT ![k] = e]
        BY <1>2 DEF WorkerEnds
    <2>2. e \in CallStates /\ e.st = "dead" /\ e.at = call[k].at /\ e.fd = call[k].fd
          /\ e.spoke = call[k].spoke
        BY <1>1 DEF CallStates
    <2> HIDE DEF e
    <2> QED
        BY <1>2, <2>1, <2>2, GoingOnHolds DEF WorkerEnds
<1>3. CASE ExecTimesOut(k)
    <2> DEFINE e == [call[k] EXCEPT !.tmo = FALSE, !.timed_out = TRUE, !.st = "dead"]
    <2>1. call' = [call EXCEPT ![k] = e]
        BY <1>3 DEF ExecTimesOut
    <2>2. e \in CallStates /\ e.st = "dead" /\ e.at = call[k].at /\ e.fd = call[k].fd
          /\ e.spoke = call[k].spoke
        BY <1>1 DEF CallStates
    <2> HIDE DEF e
    <2> QED
        BY <1>1, <1>3, <2>1, <2>2, GoingOnHolds DEF ExecTimesOut
<1> QED
    BY <1>2, <1>3

\* A worker writes: to its own file, or to that of another call of its second.
LEMMA WriteHolds ==
  ASSUME IInv, NEW k \in Calls, WorkerWrites(k)
  PROVE IInv'
<1> DEFINE e == [call[k] EXCEPT !.spoke = TRUE]
           o == call[k].fd
<1>1. /\ CallsTyped /\ ConsolesTyped /\ call[k] \in CallStates
      /\ call[k].st = "running" /\ o \in Calls
      /\ call[o].st # "none" /\ call[o].at = call[k].at
      /\ UNCHANGED <<now, file, consoleVars, quota>>
      /\ call' = [call EXCEPT ![k] = e] /\ wrote' = [wrote EXCEPT ![o] = wrote[o] \cup {k}]
    BY Typed DEF IInv, FdIsOfCall, WorkerWrites, CallsTyped
<1>2. /\ e \in CallStates /\ e.st = "running" /\ e.at = call[k].at /\ e.fd = o /\ e.spoke
      /\ e.tmo = call[k].tmo
    BY <1>1 DEF CallStates
<1> HIDE DEF e, o
<1>3. /\ call' \in [Calls -> CallStates] /\ call'[k] = e
      /\ \A j \in Calls : j # k => call'[j] = call[j]
      /\ \A j \in Calls : wrote'[j] = IF j = o THEN wrote[j] \cup {k} ELSE wrote[j]
      /\ wrote' \in [Calls -> SUBSET Calls]
    BY <1>1, <1>2 DEF CallsTyped
<1>4. TypeOK'
    <2>1. CallsTyped'
        BY <1>1, <1>2, <1>3 DEF CallsTyped
    <2> QED
        BY <1>1, <2>1 DEF IInv, TypeOK, CallsTyped, consoleVars
<1>5. Persists
    BY <1>1, <1>2, <1>3 DEF Persists
<1>6. NoneIsSilent'
    BY <1>2, <1>3 DEF IInv, NoneIsSilent
<1>7. FileIsOfCall'
    BY <1>1, <1>5 DEF IInv, FileIsOfCall, Persists, CallsTyped
<1>8. \A j \in Calls : /\ call'[j].st = call[j].st /\ call'[j].at = call[j].at
                       /\ call'[j].fd = call[j].fd
    <2>1. o = call[k].fd
        BY DEF o
    <2> QED
        BY <1>1, <1>2, <1>3, <2>1
<1>9. FdIsOfCall'
    BY <1>8 DEF IInv, FdIsOfCall
<1>10. \A j \in Calls : Shared(j)' <=> Shared(j)
    BY <1>8 DEF Shared
<1>11. FileIsOwn'
    <2>1. ASSUME NEW j \in Calls, j # k, call'[j].st \in {"running", "dead"}, ~Shared(j)'
          PROVE /\ call'[j].fd = j /\ file'[call'[j].at] = j
                /\ wrote'[j] = IF call'[j].spoke THEN {j} ELSE {}
        <3>1. j # o
            BY <1>1, <1>8, <1>10, <2>1 DEF Shared
        <3>2. ~Shared(j) /\ call'[j] = call[j]
            BY <1>3, <1>10, <2>1
        <3> QED
            BY <1>1, <1>3, <2>1, <3>1, <3>2 DEF IInv, FileIsOwn
    <2>2. ASSUME ~Shared(k)'
          PROVE /\ call'[k].fd = k /\ file'[call'[k].at] = k
                /\ wrote'[k] = IF call'[k].spoke THEN {k} ELSE {}
        <3>1. o = k /\ file[call[k].at] = k /\ wrote[k] \subseteq {k}
            BY <1>1, <1>10, <2>2 DEF IInv, FileIsOwn, o
        <3>2. wrote'[k] = {k}
            BY <1>3, <3>1
        <3> QED
            BY <1>1, <1>2, <1>3, <3>1, <3>2
    <2> QED
        BY <2>1, <2>2 DEF FileIsOwn
<1>12. OutputIsOwn'
    <2>1. \A j \in Calls : call'[j].st = "answered" => call'[j] = call[j]
        BY <1>2, <1>3
    <2> QED
        BY <1>10, <2>1 DEF IInv, OutputIsOwn
<1> QED
    BY <1>4, <1>6, <1>7, <1>9, <1>11, <1>12 DEF IInv

\* The worker is reaped, the call answered and the file removed: the answer is right
\* unless the second was shared.
LEMMA ReapHolds ==
  ASSUME IInv, NEW k \in Calls, WorkerReaped(k)
  PROVE IInv'
<1> DEFINE right == Output(k) = IF call[k].spoke THEN {k} ELSE {}
           e == [call[k] EXCEPT !.st = "answered", !.tmo = FALSE, !.own = right]
<1>1. /\ CallsTyped /\ ConsolesTyped /\ call[k] \in CallStates
      /\ call[k].st = "dead" /\ call[k].at \in 0 .. Seconds
      /\ UNCHANGED <<now, wrote, consoleVars, quota>>
      /\ call' = [call EXCEPT ![k] = e]
      /\ file' = [file EXCEPT ![call[k].at] = None]
    <2>1. CallsTyped /\ ConsolesTyped
        BY Typed DEF IInv
    <2>2. call[k] \in CallStates
        BY <2>1 DEF CallsTyped
    <2> QED
        BY <2>1, <2>2 DEF WorkerReaped, Finished, Outpath, CallStates
<1>2. right \in BOOLEAN
    OBVIOUS
<1>3. ~Shared(k) => right
    <2>1. ASSUME ~Shared(k) PROVE Output(k) = IF call[k].spoke THEN {k} ELSE {}
        <3>1. file[call[k].at] = k /\ wrote[k] = IF call[k].spoke THEN {k} ELSE {}
            BY <1>1, <2>1 DEF IInv, FileIsOwn
        <3>2. k # None
            BY SessionsAssumption DEF SessionsAssumption
        <3> QED
            BY <3>1, <3>2 DEF Output, Outpath
    <2> QED
        BY <2>1
<1> HIDE DEF right
<1>4. /\ e \in CallStates /\ e.st = "answered" /\ e.at = call[k].at /\ ~e.tmo /\ e.own = right
    BY <1>1, <1>2 DEF CallStates
<1> HIDE DEF e
<1>5. /\ call' \in [Calls -> CallStates] /\ call'[k] = e
      /\ \A j \in Calls : j # k => call'[j] = call[j]
      /\ file' \in [0 .. Seconds -> Calls \cup {None}]
      /\ \A p \in 0 .. Seconds : file'[p] = IF p = call[k].at THEN None ELSE file[p]
    BY <1>1, <1>4 DEF CallsTyped
<1>6. TypeOK'
    <2>1. CallsTyped'
        BY <1>1, <1>4, <1>5 DEF CallsTyped
    <2> QED
        BY <1>1, <2>1 DEF IInv, TypeOK, CallsTyped, consoleVars
<1>7. Persists
    BY <1>1, <1>4, <1>5 DEF Persists
<1>8. NoneIsSilent'
    BY <1>4, <1>5 DEF IInv, NoneIsSilent
<1>9. FileIsOfCall'
    BY <1>1, <1>5, <1>7 DEF IInv, FileIsOfCall, Persists, CallsTyped
<1>10. FdIsOfCall'
    <2>1. ASSUME NEW j \in Calls, call'[j].st \in {"running", "dead"}
          PROVE /\ call'[j].fd \in Calls
                /\ call'[call'[j].fd].st # "none" /\ call'[call'[j].fd].at = call'[j].at
        <3>1. call'[j] = call[j]
            BY <1>4, <1>5, <2>1
        <3>2. call[j].fd \in Calls /\ call[call[j].fd].st # "none"
              /\ call[call[j].fd].at = call[j].at
            BY <2>1, <3>1 DEF IInv, FdIsOfCall
        <3> QED
            BY <1>7, <3>1, <3>2 DEF Persists
    <2> QED
        BY <2>1 DEF FdIsOfCall
<1>11. FileIsOwn'
    <2>1. ASSUME NEW j \in Calls, call'[j].st \in {"running", "dead"}, ~Shared(j)'
          PROVE /\ call'[j].fd = j /\ file'[call'[j].at] = j
                /\ wrote'[j] = IF call'[j].spoke THEN {j} ELSE {}
        <3>1. j # k /\ call'[j] = call[j] /\ call[j].at \in 0 .. Seconds
            BY <1>1, <1>4, <1>5, <2>1 DEF CallsTyped, CallStates
        <3>2. ~Shared(j)
            BY <1>7, <2>1, <3>1, SharedStays
        <3>3. call[j].at # call[k].at
            BY <1>1, <3>1, <3>2 DEF Shared
        <3> QED
            BY <1>1, <1>5, <2>1, <3>1, <3>2, <3>3 DEF IInv, FileIsOwn
    <2> QED
        BY <2>1 DEF FileIsOwn
<1>12. OutputIsOwn'
    <2>1. ASSUME NEW j \in Calls, call'[j].st = "answered", ~call'[j].own PROVE Shared(j)'
        <3>1. CASE j = k
            BY <1>1, <1>3, <1>4, <1>5, <1>7, <2>1, <3>1, SharedStays
        <3>2. CASE j # k
            <4>1. call'[j] = call[j]
                BY <1>5, <3>2
            <4> QED
                BY <1>7, <2>1, <4>1, SharedStays DEF IInv, OutputIsOwn
        <3> QED
            BY <3>1, <3>2
    <2> QED
        BY <2>1 DEF OutputIsOwn
<1> QED
    BY <1>6, <1>8, <1>9, <1>10, <1>11, <1>12 DEF IInv

\* The daemon dies: the calls that ran are lost, their files stay.
LEMMA DeathHolds ==
  ASSUME IInv, DaemonDies
  PROVE IInv'
<1>1. /\ CallsTyped /\ ConsolesTyped /\ quota' \in Quotas
      /\ procs' = {} /\ reaping' = FALSE
      /\ UNCHANGED <<user, now, file, wrote, con>>
    BY Typed, Spends DEF IInv, DaemonDies
<1>2. ASSUME NEW k \in Calls
      PROVE \/ call[k].st \notin {"running", "dead"} /\ call'[k] = call[k]
            \/ /\ call[k].st \in {"running", "dead"}
               /\ call'[k] \in CallStates /\ call'[k].st = "lost" /\ ~call'[k].tmo
               /\ call'[k].at = call[k].at
    <2>1. call[k] \in CallStates
        BY <1>1 DEF CallsTyped
    <2>2. CASE call[k].st \in {"running", "dead"}
        <3>1. call'[k] = [call[k] EXCEPT !.st = "lost", !.tmo = FALSE]
            BY <2>2 DEF DaemonDies
        <3> QED
            BY <2>1, <2>2, <3>1 DEF CallStates
    <2>3. CASE call[k].st \notin {"running", "dead"}
        BY <2>3 DEF DaemonDies
    <2> QED
        BY <2>2, <2>3
<1>3. call' \in [Calls -> CallStates]
    <2>1. call' = [k \in Calls |-> call'[k]]
        BY DEF DaemonDies
    <2>2. \A k \in Calls : call'[k] \in CallStates
        BY <1>1, <1>2 DEF CallsTyped
    <2> QED
        BY <2>1, <2>2
<1>4. TypeOK'
    <2>1. CallsTyped'
        BY <1>1, <1>2, <1>3 DEF CallsTyped
    <2> QED
        BY <1>1, <2>1 DEF IInv, TypeOK, CallsTyped, ConsolesTyped, Quotas
<1>5. Persists /\ \A k \in Calls : call'[k].st \notin {"running", "dead"}
    BY <1>2 DEF Persists
<1>6. NoneIsSilent'
    BY <1>2 DEF IInv, NoneIsSilent
<1>7. FileIsOfCall'
    BY <1>1, <1>5 DEF IInv, FileIsOfCall, Persists, CallsTyped
<1>8. FdIsOfCall' /\ FileIsOwn'
    BY <1>5 DEF FdIsOfCall, FileIsOwn
<1>9. OutputIsOwn'
    BY <1>2, <1>5, SharedStays DEF IInv, OutputIsOwn
<1> QED
    BY <1>4, <1>6, <1>7, <1>8, <1>9 DEF IInv

\* A console that was in use is not told to go.
Spared == \A s \in Consoles : con'[s].term /\ ~con[s].term => ~con[s].attached

\* One console changes, and is not told to go.
LEMMA OneConsole ==
  ASSUME ConsolesTyped, NEW s \in Consoles, NEW e \in ConsoleStates,
         con' = [con EXCEPT ![s] = e], e.term => con[s].term,
         procs' \subseteq Consoles, reaping' \in BOOLEAN
  PROVE ConsolesTyped' /\ Spared
<1>1. con' \in [Consoles -> ConsoleStates] /\ con'[s] = e
      /\ \A t \in Consoles : t # s => con'[t] = con[t]
    BY DEF ConsolesTyped
<1> QED
    BY <1>1 DEF ConsolesTyped, Spared

\* console, console_active, the browser and ttyd.
LEMMA ConsoleHolds ==
  ASSUME IInv, NEW s \in Consoles,
         \/ Console(s) \/ ConsoleFails(s) \/ Attach(s) \/ TtydExits(s)
         \/ IdleTimePasses(s) \/ ConsoleActive(s)
  PROVE IInv' /\ Spared
<1>1. /\ ConsolesTyped /\ con[s] \in ConsoleStates /\ procs \subseteq Consoles
      /\ quota \in Quotas /\ now \in 0 .. Seconds /\ UNCHANGED execVars /\ UNCHANGED quota
    BY Typed DEF IInv, ConsolesTyped, CallsTyped, Console, ConsoleFails, Attach, TtydExits,
                 IdleTimePasses, ConsoleActive
<1>2. ConsolesTyped' /\ Spared
    <2>1. CASE Console(s)
        <3>1. PICK p \in Ports :
                con' = [con EXCEPT ![s] = [NoConsole EXCEPT
                          !.st = IF Held(p) THEN "dead" ELSE "alive", !.port = p, !.after = procs]]
            BY <2>1 DEF Console
        <3> DEFINE st == IF Held(p) THEN "dead" ELSE "alive"
                   e == [NoConsole EXCEPT !.st = st, !.port = p, !.after = procs]
        <3>2. st \in {"dead", "alive"}
            OBVIOUS
        <3> HIDE DEF st
        <3>3. e \in ConsoleStates /\ ~e.term
            BY <1>1, <3>2 DEF NoConsole, ConsoleStates
        <3>4. con' = [con EXCEPT ![s] = e]
            BY <3>1 DEF st
        <3> HIDE DEF e
        <3> QED
            BY <1>1, <2>1, <3>3, <3>4, OneConsole DEF Console
    <2>2. CASE Attach(s)
        <3> DEFINE e == [con[s] EXCEPT !.attached = TRUE]
        <3>1. con' = [con EXCEPT ![s] = e] /\ UNCHANGED <<procs, reaping>>
            BY <2>2 DEF Attach
        <3>2. e \in ConsoleStates /\ e.term = con[s].term
            BY <1>1 DEF ConsoleStates
        <3> HIDE DEF e
        <3> QED
            BY <1>1, <3>1, <3>2, OneConsole DEF ConsolesTyped
    <2>3. CASE TtydExits(s)
        <3> DEFINE e == [con[s] EXCEPT !.st = "dead", !.attached = FALSE]
        <3>1. con' = [con EXCEPT ![s] = e] /\ UNCHANGED <<procs, reaping>>
            BY <2>3 DEF TtydExits
        <3>2. e \in ConsoleStates /\ e.term = con[s].term
            BY <1>1 DEF ConsoleStates
        <3> HIDE DEF e
        <3> QED
            BY <1>1, <3>1, <3>2, OneConsole DEF ConsolesTyped
    <2>4. CASE IdleTimePasses(s)
        <3> DEFINE e == [con[s] EXCEPT !.idle = TRUE]
        <3>1. con' = [con EXCEPT ![s] = e] /\ UNCHANGED <<procs, reaping>>
            BY <2>4 DEF IdleTimePasses
        <3>2. e \in ConsoleStates /\ e.term = con[s].term
            BY <1>1 DEF ConsoleStates
        <3> HIDE DEF e
        <3> QED
            BY <1>1, <3>1, <3>2, OneConsole DEF ConsolesTyped
    <2>5. CASE ConsoleActive(s)
        <3>1. procs' \subseteq Consoles /\ UNCHANGED reaping
            BY <1>1, <2>5 DEF ConsoleActive
        <3>2. CASE UNCHANGED con
            BY <1>1, <3>1, <3>2 DEF ConsolesTyped, Spared
        <3>3. CASE con' = [con EXCEPT ![s].told = TRUE]
            <4> DEFINE e == [con[s] EXCEPT !.told = TRUE]
            <4>1. con' = [con EXCEPT ![s] = e]
                BY <3>3
            <4>2. e \in ConsoleStates /\ e.term = con[s].term
                BY <1>1 DEF ConsoleStates
            <4> HIDE DEF e
            <4> QED
                BY <1>1, <3>1, <4>1, <4>2, OneConsole DEF ConsolesTyped
        <3> QED
            BY <2>5, <3>2, <3>3 DEF ConsoleActive
    <2>6. CASE ConsoleFails(s)
        <3> DEFINE e == [con[s] EXCEPT !.st = "dead"]
        <3>1. con' = [con EXCEPT ![s] = e] /\ UNCHANGED <<procs, reaping>>
            BY <2>6 DEF ConsoleFails
        <3>2. e \in ConsoleStates /\ e.term = con[s].term
            BY <1>1 DEF ConsoleStates
        <3> HIDE DEF e
        <3> QED
            BY <1>1, <3>1, <3>2, OneConsole DEF ConsolesTyped
    <2> QED
        BY <2>1, <2>2, <2>3, <2>4, <2>5, <2>6
<1> QED
    BY <1>1, <1>2, CallsAreKept DEF execVars

\* console_reaper tells no console to go that is in use.
LEMMA ReaperHolds ==
  ASSUME IInv, ConsoleReaper
  PROVE IInv' /\ Spared
<1>1. /\ ConsolesTyped /\ quota \in Quotas /\ now \in 0 .. Seconds
      /\ UNCHANGED execVars /\ UNCHANGED quota
    BY Typed DEF IInv, CallsTyped, ConsoleReaper
<1>2. ASSUME NEW s \in Consoles
      PROVE /\ con'[s] \in ConsoleStates
            /\ con'[s].term /\ ~con[s].term => ~con[s].attached
    <2>1. con[s] \in ConsoleStates
        BY <1>1 DEF ConsolesTyped
    <2>2. con'[s] = con[s] \/ con'[s] = Polled(s)
        BY DEF ConsoleReaper
    <2>3. CASE con[s].attached
        <3>1. Polled(s) = [con[s] EXCEPT !.idle = FALSE]
            BY <2>3 DEF Polled
        <3> QED
            BY <2>1, <2>2, <3>1 DEF ConsoleStates
    <2>4. CASE ~con[s].attached
        <3> DEFINE told == con[s].term \/ con[s].idle
        <3>1. Polled(s) = [con[s] EXCEPT !.term = told] /\ told \in BOOLEAN
            BY <2>4 DEF Polled
        <3> HIDE DEF told
        <3> QED
            BY <2>1, <2>2, <2>4, <3>1 DEF ConsoleStates
    <2> QED
        BY <2>3, <2>4
<1>3. con' \in [Consoles -> ConsoleStates]
    <2>1. con' = [s \in Consoles |-> con'[s]]
        BY DEF ConsoleReaper
    <2> QED
        BY <1>2, <2>1
<1>4. procs' \subseteq Consoles /\ reaping' \in BOOLEAN
    BY <1>1 DEF ConsoleReaper, ConsolesTyped
<1>5. ConsolesTyped'
    BY <1>3, <1>4 DEF ConsolesTyped
<1> QED
    BY <1>1, <1>2, <1>5, CallsAreKept DEF execVars, Spared

\* A second passes.
LEMMA SecondHolds ==
  ASSUME IInv, SecondPasses
  PROVE IInv'
<1>1. now \in 0 .. Seconds /\ Seconds \in Nat
    BY SessionsAssumption DEF IInv, TypeOK, SessionsAssumption
<1>2. now' \in 0 .. Seconds
    BY <1>1 DEF SecondPasses
<1> QED
    BY <1>2, CallsAreKept, Typed DEF SecondPasses, consoleVars, IInv, ConsolesTyped

-----------------------------------------------------------------------------
(* The theorems.                                                           *)

\* Every step keeps the invariant, and spares the consoles in use.
LEMMA Steps == IInv /\ [Next]_vars => IInv' /\ Spared
<1> SUFFICES ASSUME IInv, [Next]_vars PROVE IInv' /\ Spared
    OBVIOUS
<1>1. ASSUME NEW k \in Calls,
             \/ Exec(k) \/ ExecFails(k) \/ WorkerWrites(k) \/ WorkerEnds(k)
             \/ ExecTimesOut(k) \/ WorkerReaped(k)
      PROVE IInv' /\ con' = con
    <2>1. IInv'
        BY <1>1, ExecHolds, WriteHolds, EndHolds, ReapHolds
    <2>2. con' = con
        BY <1>1 DEF Exec, ExecFails, WorkerWrites, WorkerEnds, ExecTimesOut, WorkerReaped,
                    consoleVars
    <2> QED
        BY <2>1, <2>2
<1>2. CASE SecondPasses \/ DaemonDies
    <2>1. con' = con
        BY <1>2 DEF SecondPasses, DaemonDies, consoleVars
    <2> QED
        BY <1>2, <2>1, SecondHolds, DeathHolds DEF Spared
<1>3. CASE UNCHANGED vars
    BY <1>3, CallsAreKept, Typed DEF vars, Spared, IInv, ConsolesTyped, CallsTyped
<1> QED
    BY <1>1, <1>2, <1>3, ConsoleHolds, ReaperHolds DEF Next, Spared

\* The invariant holds of every behaviour.
LEMMA Invariance == Spec => []IInv
<1>1. Init => IInv
    BY InitHolds
<1>2. IInv /\ [Next]_vars => IInv'
    BY Steps
<1> QED
    BY <1>1, <1>2, PTL DEF Spec

\* Every variable stays in its domain; in particular no timeout is pending for a call
\* whose ExecCtx is gone (exec_worker_exit_cb cancels it before exec_finish).
THEOREM SessionsAreTyped == Spec => []TypeOK
<1>1. IInv => TypeOK
    BY DEF IInv
<1> QED
    BY <1>1, Invariance, PTL

\* An answer is the output of its own command, all of it and nothing else, whatever other
\* calls run, end, time out or are lost, unless one came within the same second
\* (exec_async, exec_worker_exit_cb).
THEOREM AnswersAreOwn == Spec => []OutputIsOwn
<1>1. IInv => OutputIsOwn
    BY DEF IInv
<1> QED
    BY <1>1, Invariance, PTL

\* No step tells a console to go that is in use (console_reaper).
THEOREM ConsolesInUseAreSpared == Spec => InUseSpared
<1>1. IInv /\ [Next]_vars =>
        [\A s \in Consoles : con'[s].term /\ ~con[s].term => ~con[s].attached]_vars
    BY Steps DEF Spared
<1> QED
    BY <1>1, Invariance, PTL DEF Spec, InUseSpared
=============================================================================
