------------------------ MODULE ServiceMonitorProofs ------------------------
(***************************************************************************)
(* What holds of ServiceMonitor for any number of services, starts and     *)
(* restart requests, whatever max_restarts is.                             *)
(***************************************************************************)
EXTENDS ServiceMonitor, FiniteSetTheorems, TLAPS

\* Instances of s, those whose exit is still to be handled, and those whose
\* handled exit was a stop.
Mine(s) == {i \in Instances : owner[i] = s}
Pending(s) == Mine(s) \ handled
Stopped(s) == {i \in Mine(s) \cap handled : child[i] = "killed"}

\* Failures that open the breaker.
Limit == IF MaxRestarts = 0 THEN 1 ELSE MaxRestarts

\* There is one right to start the service: it is with start_registered_services,
\* then with an instance until its exit is handled, then with a nap.
Token(s) ==
  /\ \A i, j \in Pending(s) : i = j
  /\ naps[s] \in {0, 1}
  /\ naps[s] = 1 => Pending(s) = {}
  /\ s \in todo => Mine(s) = {} /\ naps[s] = 0

\* Nobody has it when the breaker is open or a caller has stopped the service.
Breaker(s) ==
  /\ count[s] <= Limit
  /\ ~chain[s] \/ s \in todo => count[s] = 0
  /\ Broken(s) <=> count[s] = Limit
  /\ Broken(s) => Pending(s) = {} /\ naps[s] = 0
  /\ Stopped(s) # {} =>
       /\ Pending(s) = {} /\ naps[s] = 0
       /\ phase \in {"booting", "up"} => status[s] = "killed"

\* All this until a caller restarts the service by hand.
ServiceInv(s) == s \notin restarted => Token(s) /\ Breaker(s)

Calls ==
  \A r \in Requests :
    call[r] # NoCall => call[r].service \in restarted /\ phase = "up"

Owned == \A i \in Instances : child[i] = "absent" <=> owner[i] = NoService

SInv == TypeOK /\ Owned /\ Calls /\ \A s \in Services : ServiceInv(s)

-----------------------------------------------------------------------------
(* What a start does, and what leaves a service alone.                     *)

Statuses == {"exited", "running", "killed", "circuit_breaker"}

LEMMA LimitIs == Limit \in Nat /\ Limit >= 1 /\ \A n \in Nat : n <= Limit /\ n >= 1 => (TooMany(n) <=> n = Limit)
BY ServiceAssumption DEF Limit, TooMany

\* A handled instance is not live, and an instance nobody started is no service's.
LEMMA HandledIsOver ==
  ASSUME TypeOK, NEW i \in handled
  PROVE  i \in Instances /\ i \in watched /\ child[i] \in {"exited", "killed"}
BY DEF TypeOK, Life!LifeTypeOK, Life!Verdicts

LEMMA Kept ==
  ASSUME NEW s \in Services, ServiceInv(s),
         Mine(s)' = Mine(s), Pending(s)' = Pending(s), Stopped(s)' = Stopped(s),
         naps'[s] = naps[s], s \in todo' => s \in todo,
         status'[s] = status[s], count'[s] = count[s], chain'[s] = chain[s],
         phase' \in {"booting", "up"} => phase \in {"booting", "up"},
         restarted \subseteq restarted'
  PROVE  ServiceInv(s)'
BY DEF ServiceInv, Token, Breaker, Broken

\* A step that starts nothing, handles nothing and stops nothing that was handled
\* leaves the instances of every service as they are.
LEMMA SameInstances ==
  ASSUME TypeOK, owner' = owner, handled' = handled, NEW s \in Services,
         \A i \in handled : child'[i] = child[i]
  PROVE  Mine(s)' = Mine(s) /\ Pending(s)' = Pending(s) /\ Stopped(s)' = Stopped(s)
BY DEF Mine, Pending, Stopped

LEMMA Start ==
  ASSUME SInv, NEW s \in Services, NEW st \in [Services -> Statuses], StartService(s, st)
  PROVE  /\ Life!LifeTypeOK'
         /\ owner' \in [Instances -> Services \cup {NoService}]
         /\ watched' \subseteq Instances /\ told' \subseteq watched' /\ told' = told
         /\ current' \in [Services -> Instances \cup {NoInstance}]
         /\ status' \in [Services -> Statuses]
         /\ raised' \subseteq Services
         /\ handled' = handled
         /\ Owned'
         /\ status'[s] \in {st[s], "running"}
         /\ \A k \in Services \ {s} :
              /\ status'[k] = st[k]
              /\ Mine(k)' = Mine(k) /\ Pending(k)' = Pending(k) /\ Stopped(k)' = Stopped(k)
         /\ Stopped(s)' = Stopped(s)
         /\ Pending(s) = {} => \A i, j \in Pending(s)' : i = j
<1> USE ServiceAssumption
<1>1. CASE \E i \in Instances : LaunchFor(i, s) /\ watched' \in {watched, watched \cup {i}}
  <2>1. PICK i \in Instances : LaunchFor(i, s) /\ watched' \in {watched, watched \cup {i}}
    BY <1>1
  <2>2. /\ child[i] = "absent" /\ child' = [child EXCEPT ![i] = "live"]
        /\ UNCHANGED <<stopping, known, told>>
        /\ owner' = [owner EXCEPT ![i] = s]
    BY <2>1 DEF LaunchFor, Life!Launch
  <2>3. /\ handled' = handled
        /\ \/ status' = [st EXCEPT ![s] = "running"]
              /\ current' \in [Services -> Instances \cup {NoInstance}]
              /\ raised' = raised
           \/ status' = st /\ current' = current /\ raised' = raised \cup {s}
    BY DEF StartService, Started, StartRaises, SInv, TypeOK
  <2>4. owner[i] = NoService /\ i \notin handled
    BY <2>2, HandledIsOver DEF SInv, Owned
  <2>5. Life!LifeTypeOK'
    BY <2>2 DEF SInv, TypeOK, Life!LifeTypeOK, Life!Verdicts
  <2>6. owner' \in [Instances -> Services \cup {NoService}]
    BY <2>2 DEF SInv, TypeOK
  <2>7. /\ watched' \subseteq Instances /\ told' \subseteq watched' /\ told' = told
        /\ raised' \subseteq Services
    BY <2>1, <2>2, <2>3 DEF SInv, TypeOK
  <2>8. /\ current' \in [Services -> Instances \cup {NoInstance}]
        /\ status' \in [Services -> Statuses]
        /\ status'[s] \in {st[s], "running"}
        /\ \A k \in Services \ {s} : status'[k] = st[k]
    BY <2>3 DEF SInv, TypeOK, Statuses
  <2>9. Owned'
    BY <2>2 DEF SInv, TypeOK, Owned, Life!LifeTypeOK
  <2>10. ASSUME NEW k \in Services PROVE Stopped(k)' = Stopped(k)
    BY <2>2, <2>3, <2>4 DEF SInv, TypeOK, Stopped, Mine, Life!LifeTypeOK
  <2>11. ASSUME NEW k \in Services \ {s} PROVE Mine(k)' = Mine(k) /\ Pending(k)' = Pending(k)
    BY <2>2, <2>3, <2>4 DEF SInv, TypeOK, Mine, Pending
  <2>12. Pending(s)' = Pending(s) \cup {i}
    BY <2>2, <2>3, <2>4 DEF SInv, TypeOK, Mine, Pending
  <2>13. QED
    BY <2>3, <2>5, <2>6, <2>7, <2>8, <2>9, <2>10, <2>11, <2>12
<1>2. CASE /\ UNCHANGED <<life, owner, watched, handled, current>>
           /\ status' = st /\ raised' = raised \cup {s}
  <2>1. \A k \in Services : Mine(k)' = Mine(k) /\ Pending(k)' = Pending(k) /\ Stopped(k)' = Stopped(k)
    BY <1>2, SameInstances DEF life, SInv
  <2>2. QED
    BY <1>2, <2>1 DEF life, SInv, TypeOK, Owned, Life!LifeTypeOK
<1>3. QED
  BY <1>1, <1>2 DEF StartService, Started, StartRaises, LaunchFor, Life!Launch

-----------------------------------------------------------------------------
(* The invariant, action by action.                                        *)

LEMMA InitSInv == Init => SInv
<1> SUFFICES ASSUME Init PROVE SInv
  OBVIOUS
<1> USE ServiceAssumption
<1>1. TypeOK
  BY DEF Init, TypeOK, Life!LifeInit, Life!LifeTypeOK, NoCall
<1>2. Owned /\ Calls
  BY DEF Init, Owned, Calls, Life!LifeInit
<1>3. ASSUME NEW s \in Services PROVE ServiceInv(s)
  <2>1. Mine(s) = {} /\ Pending(s) = {} /\ Stopped(s) = {}
    BY DEF Init, Mine, Pending, Stopped
  <2>2. QED
    BY <2>1, LimitIs DEF Init, ServiceInv, Token, Breaker, Broken
<1>4. QED
  BY <1>1, <1>2, <1>3 DEF SInv

\* Steps that are no service's business.
LEMMA Quiet ==
  ASSUME SInv, TypeOK', Calls',
         UNCHANGED <<owner, handled, status, count, chain, naps, restarted>>,
         todo' \subseteq todo,
         \A i \in handled : child'[i] = child[i],
         \A i \in Instances : child'[i] = "absent" <=> child[i] = "absent",
         phase' \in {"booting", "up"} => phase \in {"booting", "up"}
  PROVE  SInv'
<1>1. Owned'
  BY DEF SInv, Owned
<1>2. ASSUME NEW s \in Services PROVE ServiceInv(s)'
  <2>1. Mine(s)' = Mine(s) /\ Pending(s)' = Pending(s) /\ Stopped(s)' = Stopped(s)
    BY SameInstances DEF SInv
  <2>2. QED
    BY <2>1, Kept DEF SInv
<1>3. QED
  BY <1>1, <1>2 DEF SInv

LEMMA BootStartSInv ==
  ASSUME SInv, NEW s \in Services, BootStart(s) PROVE SInv'
<1> USE ServiceAssumption
<1>1. /\ phase = "booting" /\ s \in todo /\ todo' = todo \ {s}
      /\ phase' \in {"booting", "failed"}
      /\ UNCHANGED <<count, chain, naps, call, restarted>>
      /\ StartService(s, status)
  BY DEF BootStart, StartService, failures
<1>2. status \in [Services -> Statuses]
  BY DEF SInv, TypeOK, Statuses
<1>3. TypeOK'
  BY <1>1, <1>2, Start DEF SInv, TypeOK, Statuses
<1>4. Owned' /\ Calls'
  BY <1>1, <1>2, Start DEF SInv, Calls
<1>5. ASSUME NEW k \in Services \ {s} PROVE ServiceInv(k)'
  BY <1>1, <1>2, Start, Kept DEF SInv
<1>6. ServiceInv(s)'
  <2>1. ASSUME s \notin restarted PROVE Token(s)' /\ Breaker(s)'
    <3>1. Token(s) /\ Breaker(s)
      BY <2>1 DEF SInv, ServiceInv
    <3>2. Pending(s) = {} /\ Stopped(s) = {} /\ naps[s] = 0 /\ count[s] = 0 /\ ~Broken(s)
      BY <1>1, <3>1, LimitIs DEF Token, Breaker, Pending, Stopped
    <3>3. status'[s] \in {status[s], "running"} /\ Stopped(s)' = {}
          /\ \A i, j \in Pending(s)' : i = j
      BY <1>1, <1>2, <3>2, Start
    <3>4. Token(s)'
      BY <1>1, <3>2, <3>3 DEF Token
    <3>5. Breaker(s)'
      BY <1>1, <3>1, <3>2, <3>3, LimitIs DEF Breaker, Broken
    <3>6. QED
      BY <3>4, <3>5
  <2>2. QED
    BY <1>1, <2>1 DEF ServiceInv
<1>7. QED
  BY <1>3, <1>4, <1>5, <1>6 DEF SInv

LEMMA NapEndsSInv ==
  ASSUME SInv, NEW s \in Services, NapEnds(s) PROVE SInv'
<1> USE ServiceAssumption
<1>1. /\ LoopTurns /\ naps[s] > 0 /\ naps' = [naps EXCEPT ![s] = @ - 1]
      /\ UNCHANGED <<count, chain, call, phase, todo, restarted>>
  BY DEF NapEnds, failures
<1>2. status \in [Services -> Statuses]
  BY DEF SInv, TypeOK, Statuses
<1>3. /\ naps' \in [Services -> Nat] /\ naps'[s] = naps[s] - 1
      /\ \A k \in Services \ {s} : naps'[k] = naps[k]
  BY <1>1 DEF SInv, TypeOK
<1>4. CASE Wakes
  <2>1. StartService(s, status)
    BY <1>4 DEF NapEnds
  <2>2. TypeOK'
    BY <1>1, <1>2, <1>3, <2>1, Start DEF SInv, TypeOK, Statuses
  <2>3. Owned' /\ Calls'
    BY <1>1, <1>2, <2>1, Start DEF SInv, Calls
  <2>4. ASSUME NEW k \in Services \ {s} PROVE ServiceInv(k)'
    BY <1>1, <1>2, <1>3, <2>1, Start, Kept DEF SInv
  <2>5. ServiceInv(s)'
    <3>1. ASSUME s \notin restarted PROVE Token(s)' /\ Breaker(s)'
      <4>1. Token(s) /\ Breaker(s)
        BY <3>1 DEF SInv, ServiceInv
      <4>2. naps[s] = 1 /\ Pending(s) = {} /\ Stopped(s) = {} /\ ~Broken(s) /\ s \notin todo
        BY <1>1, <4>1 DEF Token, Breaker
      <4>3. status'[s] \in {status[s], "running"} /\ Stopped(s)' = {}
            /\ \A i, j \in Pending(s)' : i = j
        BY <1>2, <2>1, <4>2, Start
      <4>4. Token(s)'
        BY <1>1, <1>3, <4>2, <4>3 DEF Token
      <4>5. Breaker(s)'
        BY <1>1, <4>1, <4>2, <4>3 DEF Breaker, Broken
      <4>6. QED
        BY <4>4, <4>5
    <3>2. QED
      BY <1>1, <3>1 DEF ServiceInv
  <2>6. QED
    BY <2>2, <2>3, <2>4, <2>5 DEF SInv
<1>5. CASE ~Wakes
  <2>1. UNCHANGED <<life, inst, current, status, raised>>
    BY <1>5 DEF NapEnds
  <2>2. TypeOK' /\ Owned' /\ Calls'
    BY <1>1, <1>3, <2>1 DEF SInv, TypeOK, Owned, Calls, life, inst, Life!LifeTypeOK
  <2>3. ASSUME NEW k \in Services
        PROVE  Mine(k)' = Mine(k) /\ Pending(k)' = Pending(k) /\ Stopped(k)' = Stopped(k)
    BY <2>1, SameInstances DEF life, inst, SInv
  <2>4. ASSUME NEW k \in Services \ {s} PROVE ServiceInv(k)'
    BY <1>1, <1>3, <2>1, <2>3, Kept DEF SInv
  <2>5. ServiceInv(s)'
    BY <1>1, <1>3, <2>1, <2>3 DEF SInv, ServiceInv, Token, Breaker, Broken
  <2>6. QED
    BY <2>2, <2>4, <2>5 DEF SInv
<1>6. QED
  BY <1>4, <1>5

LEMMA ResetBreakerSInv ==
  ASSUME SInv, NEW s \in Services, ResetBreaker(s) PROVE SInv'
<1> USE ServiceAssumption
<1> DEFINE st == [status EXCEPT ![s] = "exited"]
<1>1. /\ phase = "up" /\ Broken(s) /\ Forgive(s)
      /\ UNCHANGED <<naps, call, phase, todo, restarted>>
      /\ \/ StartService(s, st)
         \/ status' = st /\ raised' = raised \cup {s} /\ UNCHANGED <<life, inst, current>>
  BY DEF ResetBreaker, Broken
<1>2. /\ count' \in [Services -> Nat] /\ count'[s] = 0
      /\ chain' \in [Services -> BOOLEAN]
      /\ \A k \in Services \ {s} : count'[k] = count[k] /\ chain'[k] = chain[k]
  BY <1>1 DEF Forgive, SInv, TypeOK
<1>3. /\ st \in [Services -> Statuses] /\ st[s] = "exited"
      /\ \A k \in Services \ {s} : st[k] = status[k]
  BY DEF SInv, TypeOK, Statuses
<1> HIDE DEF st
<1>4. /\ TypeOK' /\ Owned' /\ status'[s] \in {"exited", "running"}
      /\ \A k \in Services \ {s} :
           /\ status'[k] = status[k]
           /\ Mine(k)' = Mine(k) /\ Pending(k)' = Pending(k) /\ Stopped(k)' = Stopped(k)
      /\ Stopped(s)' = Stopped(s)
      /\ Pending(s) = {} => \A i, j \in Pending(s)' : i = j
  <2>1. CASE StartService(s, st)
    BY <1>1, <1>2, <1>3, <2>1, Start DEF SInv, TypeOK, Statuses
  <2>2. CASE status' = st /\ raised' = raised \cup {s} /\ UNCHANGED <<life, inst, current>>
    <3>1. \A k \in Services : Mine(k)' = Mine(k) /\ Pending(k)' = Pending(k) /\ Stopped(k)' = Stopped(k)
      BY <2>2, SameInstances DEF life, inst, SInv
    <3>2. TypeOK' /\ Owned'
      BY <1>1, <1>2, <1>3, <2>2 DEF SInv, TypeOK, Owned, life, inst, Life!LifeTypeOK, Statuses
    <3>3. QED
      BY <1>3, <2>2, <3>1, <3>2
  <2>3. QED
    BY <1>1, <2>1, <2>2
<1>5. Calls'
  BY <1>1 DEF SInv, Calls
<1>6. ASSUME NEW k \in Services \ {s} PROVE ServiceInv(k)'
  BY <1>1, <1>2, <1>4, Kept DEF SInv
<1>7. ServiceInv(s)'
  <2>1. ASSUME s \notin restarted PROVE Token(s)' /\ Breaker(s)'
    <3>1. Token(s) /\ Breaker(s)
      BY <2>1 DEF SInv, ServiceInv
    <3>2. Pending(s) = {} /\ naps[s] = 0 /\ Stopped(s) = {} /\ s \notin todo
      BY <1>1, <3>1, LimitIs DEF Breaker, Broken
    <3>3. Token(s)'
      BY <1>1, <1>4, <3>2 DEF Token
    <3>4. Breaker(s)'
      BY <1>1, <1>2, <1>4, <3>2, LimitIs DEF Breaker, Broken
    <3>5. QED
      BY <3>3, <3>4
  <2>2. QED
    BY <1>1, <2>1 DEF ServiceInv
<1>8. QED
  BY <1>4, <1>5, <1>6, <1>7 DEF SInv

\* From then on nothing is promised of s.
LEMMA RestartCallSInv ==
  ASSUME SInv, NEW r \in Requests, NEW s \in Services, RestartCall(r, s) PROVE SInv'
<1> USE ServiceAssumption
<1> DEFINE i == current[s]
           st == [status EXCEPT ![s] = "exited"]
<1>1. /\ phase = "up" /\ Forgive(s) /\ restarted' = restarted \cup {s}
      /\ UNCHANGED <<naps, phase, todo>>
      /\ \/ /\ i # NoInstance /\ Life!RequestStop(i)
            /\ call' = [call EXCEPT ![r] = [service |-> s, target |-> i]]
            /\ status' = st /\ UNCHANGED <<inst, current, raised>>
         \/ StartService(s, st) /\ UNCHANGED call
  BY DEF RestartCall
<1>2. /\ count' \in [Services -> Nat] /\ chain' \in [Services -> BOOLEAN]
      /\ \A k \in Services \ {s} : count'[k] = count[k] /\ chain'[k] = chain[k]
  BY <1>1 DEF Forgive, SInv, TypeOK
<1>3. st \in [Services -> Statuses] /\ \A k \in Services \ {s} : st[k] = status[k]
  BY DEF SInv, TypeOK, Statuses
<1>4. i \in Instances \cup {NoInstance} /\ restarted' \subseteq Services
  BY <1>1 DEF SInv, TypeOK
<1> HIDE DEF st, i
<1>5. /\ TypeOK' /\ Owned' /\ Calls'
      /\ \A k \in Services \ {s} :
           /\ status'[k] = status[k]
           /\ Mine(k)' = Mine(k) /\ Pending(k)' = Pending(k) /\ Stopped(k)' = Stopped(k)
  <2>1. CASE StartService(s, st) /\ UNCHANGED call
    <3>1. TypeOK'
      BY <1>1, <1>2, <1>3, <1>4, <2>1, Start DEF SInv, TypeOK, Statuses
    <3>2. Calls'
      BY <1>1, <2>1 DEF SInv, Calls
    <3>3. QED
      BY <1>3, <2>1, <3>1, <3>2, Start
  <2>2. CASE /\ i # NoInstance /\ Life!RequestStop(i)
             /\ call' = [call EXCEPT ![r] = [service |-> s, target |-> i]]
             /\ status' = st /\ UNCHANGED <<inst, current, raised>>
    <3>1. child' = child /\ known' = known /\ told' = told /\ stopping' = stopping \cup {i}
      BY <2>2 DEF Life!RequestStop
    <3>2. call' \in [Requests -> [service : Services \cup {NoService},
                                  target  : Instances \cup {NoInstance}]]
      BY <1>4, <2>2 DEF SInv, TypeOK
    <3>3. Life!LifeTypeOK'
      BY <1>4, <2>2, <3>1 DEF SInv, TypeOK, Life!LifeTypeOK
    <3>4. TypeOK'
      BY <1>1, <1>2, <1>3, <1>4, <2>2, <3>1, <3>2, <3>3 DEF SInv, TypeOK, Statuses, inst
    <3>5. Owned'
      BY <2>2, <3>1 DEF SInv, Owned, inst
    <3>6. ASSUME NEW q \in Requests, call'[q] # NoCall PROVE call'[q].service \in restarted'
      <4>1. CASE q = r
        BY <1>1, <2>2, <4>1 DEF SInv, TypeOK
      <4>2. CASE q # r
        BY <1>1, <2>2, <3>6, <4>2 DEF SInv, TypeOK, Calls
      <4>3. QED
        BY <4>1, <4>2
    <3>7. Calls'
      BY <1>1, <3>6 DEF Calls, NoCall
    <3>8. \A k \in Services : Mine(k)' = Mine(k) /\ Pending(k)' = Pending(k) /\ Stopped(k)' = Stopped(k)
      BY <2>2, <3>1, SameInstances DEF inst, SInv
    <3>9. QED
      BY <1>3, <2>2, <3>4, <3>5, <3>7, <3>8
  <2>3. QED
    BY <1>1, <2>1, <2>2
<1>6. ASSUME NEW k \in Services \ {s} PROVE ServiceInv(k)'
  BY <1>1, <1>2, <1>5, Kept DEF SInv
<1>7. ServiceInv(s)'
  BY <1>1 DEF ServiceInv
<1>8. QED
  BY <1>5, <1>6, <1>7 DEF SInv

LEMMA RestartResumeSInv ==
  ASSUME SInv, NEW r \in Requests, RestartResume(r) PROVE SInv'
<1> USE ServiceAssumption
<1>0. call[r] # NoCall
  BY DEF RestartResume
<1>2. PICK s \in Services : s = call[r].service /\ s \in restarted
  BY <1>0 DEF SInv, Calls, TypeOK
<1>1. /\ call[r] # NoCall /\ call' = [call EXCEPT ![r] = NoCall]
      /\ StartService(s, status)
      /\ UNCHANGED <<count, chain, naps, phase, todo, restarted>>
  BY <1>2 DEF RestartResume, failures
<1>3. status \in [Services -> Statuses]
  BY DEF SInv, TypeOK, Statuses
<1>4. call' \in [Requests -> [service : Services \cup {NoService},
                              target  : Instances \cup {NoInstance}]]
  BY <1>1 DEF SInv, TypeOK, NoCall
<1>5. TypeOK'
  BY <1>1, <1>2, <1>3, <1>4, Start DEF SInv, TypeOK, Statuses
<1>6. Owned'
  BY <1>1, <1>2, <1>3, Start
<1>7. Calls'
  BY <1>1 DEF SInv, TypeOK, Calls, NoCall
<1>8. ASSUME NEW k \in Services \ {s} PROVE ServiceInv(k)'
  BY <1>1, <1>2, <1>3, Start, Kept DEF SInv
<1>9. ServiceInv(s)'
  BY <1>1, <1>2 DEF ServiceInv
<1>10. QED
  BY <1>5, <1>6, <1>7, <1>8, <1>9 DEF SInv

LEMMA HandleExitSInv ==
  ASSUME SInv, NEW i \in Instances, HandleExit(i) PROVE SInv'
<1> USE ServiceAssumption
<1>1. /\ LoopTurns /\ i \in told \ handled /\ handled' = handled \cup {i}
      /\ UNCHANGED <<life, owner, watched, current, call, phase, todo, restarted>>
  BY DEF HandleExit
<1>2. child[i] \in {"exited", "killed"} /\ i \in watched
  BY <1>1 DEF SInv, TypeOK, Life!LifeTypeOK, Life!Verdicts
<1>3. PICK s \in Services : s = owner[i]
  BY <1>2 DEF SInv, TypeOK, Owned
<1>4. /\ i \in Pending(s) /\ i \in Mine(s)
      /\ Mine(s)' = Mine(s) /\ Pending(s)' = Pending(s) \ {i}
      /\ Stopped(s)' = Stopped(s) \cup (IF child[i] = "killed" THEN {i} ELSE {})
      /\ \A k \in Services \ {s} :
           Mine(k)' = Mine(k) /\ Pending(k)' = Pending(k) /\ Stopped(k)' = Stopped(k)
  BY <1>1, <1>3 DEF Pending, Mine, Stopped, life
<1>5. \/ phase = "stopping" /\ UNCHANGED <<status, count, chain, naps, raised>>
      \/ /\ phase # "stopping" /\ child[i] = "killed"
         /\ status' = [status EXCEPT ![s] = "killed"] /\ UNCHANGED <<count, chain, naps, raised>>
      \/ /\ phase # "stopping" /\ child[i] = "exited"
         /\ \E window \in BOOLEAN : Fail(s, Failures(s, window))
  BY <1>2, <1>3 DEF HandleExit, Failed, failures
<1>6. ASSUME NEW window \in BOOLEAN
      PROVE  /\ Failures(s, window) \in Nat \ {0}
             /\ ServiceInv(s) /\ s \notin restarted => Failures(s, window) <= Limit
  <2>1. count[s] \in Nat /\ chain[s] \in BOOLEAN
    BY <1>3 DEF SInv, TypeOK
  <2>2. ServiceInv(s) /\ s \notin restarted => count[s] < Limit
    BY <1>4, <2>1, LimitIs DEF ServiceInv, Breaker
  <2>3. QED
    BY <2>1, <2>2, LimitIs DEF Failures
<1>7. /\ status' \in [Services -> Statuses] /\ count' \in [Services -> Nat]
      /\ chain' \in [Services -> BOOLEAN] /\ naps' \in [Services -> Nat]
      /\ raised' \subseteq Services
      /\ \A k \in Services \ {s} : /\ status'[k] = status[k] /\ count'[k] = count[k]
                                  /\ chain'[k] = chain[k] /\ naps'[k] = naps[k]
  <2>1. ASSUME NEW window \in BOOLEAN, Fail(s, Failures(s, window)) 
        PROVE  /\ status' \in [Services -> Statuses] /\ count' \in [Services -> Nat]
               /\ chain' \in [Services -> BOOLEAN] /\ naps' \in [Services -> Nat]
               /\ raised' \subseteq Services
               /\ \A k \in Services \ {s} : /\ status'[k] = status[k] /\ count'[k] = count[k]
                                           /\ chain'[k] = chain[k] /\ naps'[k] = naps[k]
    BY <1>3, <1>6, <2>1 DEF SInv, TypeOK, Fail, Renap, Statuses
  <2>2. QED
    BY <1>3, <1>5, <2>1 DEF SInv, TypeOK, Statuses
<1>8. TypeOK'
  BY <1>1, <1>7 DEF SInv, TypeOK, Life!LifeTypeOK, life, Statuses
<1>9. Owned' /\ Calls'
  BY <1>1 DEF SInv, Owned, Calls, life
<1>10. ASSUME NEW k \in Services \ {s} PROVE ServiceInv(k)'
  BY <1>1, <1>4, <1>7, Kept DEF SInv
<1>11. ServiceInv(s)'
  <2>1. ASSUME s \notin restarted PROVE Token(s)' /\ Breaker(s)'
    <3>1. Token(s) /\ Breaker(s) /\ ServiceInv(s)
      BY <1>3, <2>1 DEF SInv, ServiceInv
    <3>2. /\ Pending(s)' = {} /\ s \notin todo /\ s \notin todo' /\ naps[s] = 0
          /\ Stopped(s) = {} /\ ~Broken(s) /\ count[s] \in Nat
      BY <1>1, <1>3, <1>4, <3>1 DEF Token, Breaker, SInv, TypeOK
    <3>3. CASE phase = "stopping" /\ UNCHANGED <<status, count, chain, naps, raised>>
      BY <1>1, <1>4, <3>1, <3>2, <3>3 DEF Token, Breaker, Broken
    <3>4. CASE /\ phase # "stopping" /\ child[i] = "killed"
               /\ status' = [status EXCEPT ![s] = "killed"]
               /\ UNCHANGED <<count, chain, naps, raised>>
      <4>1. status'[s] = "killed"
        BY <1>3, <3>4 DEF SInv, TypeOK
      <4>2. QED
        BY <1>1, <3>1, <3>2, <3>4, <4>1 DEF Token, Breaker, Broken
    <3>5. CASE /\ phase # "stopping" /\ child[i] = "exited"
               /\ \E window \in BOOLEAN : Fail(s, Failures(s, window))
      <4>1. PICK window \in BOOLEAN : Fail(s, Failures(s, window))
        BY <3>5
      <4> DEFINE n == Failures(s, window)
      <4>2. n \in Nat \ {0} /\ n <= Limit
        BY <1>6, <2>1, <3>1
      <4>3. /\ chain'[s] = TRUE /\ count'[s] = n
            /\ status'[s] = (IF TooMany(n) THEN "circuit_breaker" ELSE "exited")
            /\ naps'[s] \in {0, 1} /\ (TooMany(n) => naps'[s] = 0)
        BY <1>3, <3>2, <4>1 DEF Fail, Renap, SInv, TypeOK
      <4> HIDE DEF n
      <4>4. TooMany(n) <=> n = Limit
        BY <4>2, LimitIs
      <4>5. Stopped(s)' = {}
        BY <1>4, <3>2, <3>5
      <4>6. QED
        BY <3>2, <4>2, <4>3, <4>4, <4>5 DEF Token, Breaker, Broken
    <3>6. QED
      BY <1>5, <3>3, <3>4, <3>5
  <2>2. QED
    BY <1>1, <2>1 DEF ServiceInv
<1>12. QED
  BY <1>8, <1>9, <1>10, <1>11 DEF SInv

LEMMA ShutdownSInv == ASSUME SInv, Shutdown PROVE SInv'
<1> USE ServiceAssumption
<1>1. /\ \A r \in Requests : call[r] = NoCall
      /\ phase' = "stopping" /\ naps' = [s \in Services |-> Cancelled(naps[s])]
      /\ UNCHANGED <<life, inst, current, status, count, chain, call, todo, restarted, raised>>
  BY DEF Shutdown, failures, history
<1>2. TypeOK' /\ Owned' /\ Calls'
  BY <1>1 DEF SInv, TypeOK, Owned, Calls, Cancelled, life, inst, Life!LifeTypeOK
<1>3. ASSUME NEW s \in Services PROVE ServiceInv(s)'
  <2>1. Mine(s)' = Mine(s) /\ Pending(s)' = Pending(s) /\ Stopped(s)' = Stopped(s)
    BY <1>1, SameInstances DEF SInv, life, inst
  <2>2. naps'[s] = Cancelled(naps[s])
    BY <1>1
  <2>3. QED
    BY <1>1, <2>1, <2>2 DEF SInv, ServiceInv, Token, Breaker, Broken, Cancelled
<1>4. QED
  BY <1>2, <1>3 DEF SInv

\* The steps of a child and of its watcher thread.
LEMMA LifeStep ==
  ASSUME SInv, NEW i \in Instances,
         \/ Life!RequestStop(i) \/ Life!Die(i) \/ Life!Judge(i)
         \/ i \in watched /\ Life!Publish(i)
         \/ i \in watched /\ Life!Tell(i)
  PROVE  /\ Life!LifeTypeOK' /\ told' \subseteq watched /\ told \subseteq told'
         /\ \A j \in handled : child'[j] = child[j]
         /\ \A j \in Instances : child'[j] = "absent" <=> child[j] = "absent"
<1>1. Life!LifeTypeOK /\ told \subseteq watched /\ handled \subseteq told
  BY DEF SInv, TypeOK
<1>2. \A j \in handled : child[j] \in {"exited", "killed"}
  BY HandledIsOver DEF SInv
<1>3. CASE Life!RequestStop(i)
  BY <1>1, <1>3 DEF Life!RequestStop, Life!LifeTypeOK
<1>4. CASE Life!Die(i)
  BY <1>1, <1>2, <1>4 DEF Life!Die, Life!LifeTypeOK, Life!Verdicts
<1>5. CASE Life!Judge(i)
  BY <1>1, <1>2, <1>5 DEF Life!Judge, Life!LifeTypeOK, Life!Verdicts
<1>6. CASE Life!Publish(i)
  BY <1>1, <1>6 DEF Life!Publish, Life!LifeTypeOK, Life!Verdicts
<1>7. CASE i \in watched /\ Life!Tell(i)
  BY <1>1, <1>7 DEF Life!Tell, Life!LifeTypeOK
<1>8. QED
  BY <1>3, <1>4, <1>5, <1>6, <1>7

LEMMA LifeStepSInv ==
  ASSUME SInv, NEW i \in Instances,
         \/ Life!RequestStop(i) \/ Life!Die(i) \/ Life!Judge(i)
         \/ i \in watched /\ Life!Publish(i)
         \/ i \in watched /\ Life!Tell(i),
         UNCHANGED <<inst, current, status, failures, naps, call, phase, todo, history>>
  PROVE  SInv'
<1>1. TypeOK'
  BY LifeStep DEF SInv, TypeOK, inst, failures, history
<1>2. Calls'
  BY DEF SInv, Calls, history
<1>3. QED
  BY <1>1, <1>2, LifeStep, Quiet DEF inst, failures, history

\* A watcher that dies and a restart request that raises start and handle nothing.
LEMMA LostStepSInv ==
  ASSUME SInv,
         (\E i \in Instances : WatcherDies(i)) \/ (\E r \in Requests : RestartRaises(r))
  PROVE  SInv'
<1>1. CASE \E i \in Instances : WatcherDies(i)
  <2>1. PICK i \in Instances : WatcherDies(i)
    BY <1>1
  <2>2. owner[i] \in Services
    BY <2>1 DEF WatcherDies, SInv, TypeOK, Owned, Life!LifeTypeOK, Life!Verdicts
  <2>3. TypeOK' /\ Calls'
    BY <2>1, <2>2 DEF WatcherDies, SInv, TypeOK, Calls, life, failures, Life!LifeTypeOK
  <2>4. QED
    BY <2>1, <2>3, Quiet DEF WatcherDies, life, failures
<1>2. CASE \E r \in Requests : RestartRaises(r)
  <2>1. PICK r \in Requests : RestartRaises(r)
    BY <1>2
  <2>2. call[r].service \in Services
    BY <2>1 DEF RestartRaises, SInv, Calls, TypeOK
  <2>3. NoCall \in [service : Services \cup {NoService}, target : Instances \cup {NoInstance}]
    BY DEF NoCall
  <2>4. TypeOK'
    BY <2>1, <2>2, <2>3
       DEF RestartRaises, SInv, TypeOK, life, inst, failures, Life!LifeTypeOK
  <2>5. Calls'
    BY <2>1 DEF RestartRaises, SInv, Calls, TypeOK
  <2>6. QED
    BY <2>1, <2>4, <2>5, Quiet DEF RestartRaises, life, inst, failures
<1>3. QED
  BY <1>1, <1>2

\* Serve and Exit.
LEMMA PhaseStepSInv ==
  ASSUME SInv, Serve \/ Exit PROVE SInv'
<1>1. /\ UNCHANGED <<life, inst, current, status, failures, naps, call, todo, history>>
      /\ \/ phase = "booting" /\ phase' = "up"
         \/ phase = "stopping" /\ phase' = "down"
  BY DEF Serve, Exit
<1>2. TypeOK'
  BY <1>1 DEF SInv, TypeOK, life, inst, failures, history, Life!LifeTypeOK
<1>3. Calls'
  BY <1>1 DEF SInv, Calls, history
<1>4. QED
  BY <1>1, <1>2, <1>3, Quiet DEF life, inst, failures, history

LEMMA NextSInv ==
  ASSUME SInv, [Next]_vars PROVE SInv'
<1>1. ASSUME NEW s \in Services, Resume(s) \/ ResetBreaker(s) PROVE SInv'
  BY <1>1, BootStartSInv, NapEndsSInv, ResetBreakerSInv DEF Resume
<1>2. ASSUME NEW i \in Instances, Instance(i) \/ StopProcess(i) \/ StopAll(i) PROVE SInv'
  <2>1. CASE Environment(i)
    BY <2>1, LifeStepSInv DEF Environment
  <2>2. CASE Tell(i)
    BY <2>2, LifeStepSInv DEF Tell
  <2>3. CASE HandleExit(i)
    BY <2>3, HandleExitSInv
  <2>4. CASE StopProcess(i) \/ StopAll(i)
    BY <2>4, LifeStepSInv DEF StopProcess, StopAll
  <2>5. CASE WatcherDies(i)
    BY <2>5, LostStepSInv
  <2>6. QED
    BY <1>2, <2>1, <2>2, <2>3, <2>4, <2>5 DEF Instance
<1>3. ASSUME NEW r \in Requests,
             RestartResume(r) \/ RestartRaises(r) \/ \E s \in Services : RestartCall(r, s)
      PROVE  SInv'
  BY <1>3, RestartResumeSInv, RestartCallSInv, LostStepSInv
<1>4. ASSUME Serve \/ Shutdown \/ Exit PROVE SInv'
  BY <1>4, PhaseStepSInv, ShutdownSInv
<1>5. ASSUME UNCHANGED vars PROVE SInv'
  <2>1. TypeOK' /\ Calls'
    BY <1>5 DEF vars, life, inst, failures, history, SInv, TypeOK, Calls, Life!LifeTypeOK
  <2>2. QED
    BY <1>5, <2>1, Quiet DEF vars, life, inst, failures, history
<1>6. QED
  BY <1>1, <1>2, <1>3, <1>4, <1>5 DEF Next

-----------------------------------------------------------------------------
(* Theorems.                                                               *)

\* The invariant of the monitor: until a caller restarts a service by hand there is
\* one right to start it, and nobody has it while the breaker is open.
THEOREM MonitorInvariant == Spec => []SInv
<1>1. SInv /\ [Next]_vars => SInv'
  BY NextSInv
<1>2. QED
  BY InitSInv, <1>1, PTL DEF Spec

\* Runtimes, instances and calls stay what they are meant to be.
THEOREM MonitorTypes == Spec => []TypeOK
<1>1. SInv => TypeOK
  BY DEF SInv
<1>2. QED
  BY MonitorInvariant, <1>1, PTL

\* A live instance is one whose exit is still to be handled.
LEMMA LiveIsPending ==
  ASSUME SInv, NEW s \in Services PROVE LiveOf(s) \subseteq Pending(s)
BY HandledIsOver DEF SInv, LiveOf, Pending, Mine

\* An automatic restart never doubles a service.
THEOREM ServicesRunOnce == Spec => []AtMostOneInstance
<1>1. ASSUME SInv, NEW s \in Services \ restarted PROVE Cardinality(LiveOf(s)) <= 1
  <2>1. \A i, j \in LiveOf(s) : i = j
    BY <1>1, LiveIsPending DEF SInv, ServiceInv, Token
  <2>2. LiveOf(s) = {} \/ \E i : LiveOf(s) = {i}
    BY <2>1
  <2>3. CASE LiveOf(s) = {}
    <3>1. Cardinality({}) = 0
      BY FS_EmptySet
    <3>2. QED
      BY <2>3, <3>1
  <2>4. CASE \E i : LiveOf(s) = {i}
    <3>1. PICK i : LiveOf(s) = {i}
      BY <2>4
    <3>2. Cardinality({i}) = 1
      BY FS_Singleton
    <3>3. QED
      BY <3>1, <3>2
  <2>5. QED
    BY <2>2, <2>3, <2>4
<1>2. SInv => AtMostOneInstance
  BY <1>1 DEF AtMostOneInstance
<1>3. QED
  BY MonitorInvariant, <1>2, PTL

\* Whoever stops the process of a service finds it stopped.
THEOREM StoppedServicesStayDown == Spec => []StoppedStaysDown
<1>1. ASSUME SInv, NEW i \in Instances, i \in handled, child[i] = "killed", owner[i] \notin restarted
      PROVE  LiveOf(owner[i]) = {} /\ naps[owner[i]] = 0
  <2>1. PICK s \in Services : s = owner[i]
    BY <1>1 DEF SInv, TypeOK, Owned
  <2>2. i \in Stopped(s)
    BY <1>1, <2>1 DEF Stopped, Mine
  <2>3. Pending(s) = {} /\ naps[s] = 0
    BY <1>1, <2>1, <2>2 DEF SInv, ServiceInv, Breaker
  <2>4. QED
    BY <1>1, <2>1, <2>3, LiveIsPending
<1>2. SInv => StoppedStaysDown
  BY <1>1 DEF StoppedStaysDown
<1>3. QED
  BY MonitorInvariant, <1>2, PTL

\* While the breaker is open nothing of the service runs or is about to.
THEOREM OpenBreakersHold == Spec => []BreakerHolds
<1>1. ASSUME SInv, NEW s \in Services \ restarted, Broken(s) PROVE AtRest(s)
  BY <1>1, LiveIsPending DEF SInv, ServiceInv, Breaker, AtRest
<1>2. SInv => BreakerHolds
  BY <1>1 DEF BreakerHolds
<1>3. QED
  BY MonitorInvariant, <1>2, PTL

\* The breaker opens at the limit, no earlier and no later.
THEOREM BreakersTripAtTheLimit == Spec => []BreakerTrips
<1>1. SInv => BreakerTrips
  BY DEF SInv, ServiceInv, Breaker, BreakerTrips, Limit
<1>2. QED
  BY MonitorInvariant, <1>1, PTL

\* Once the shutdown has begun no nap and no restart request starts a service.
THEOREM NothingStartsAfterShutdown == Spec => NoStartAfterShutdown
<1>1. ASSUME SInv, [Next]_vars, phase \notin {"booting", "up"}, NEW i \in Instances, child[i] = "absent"
      PROVE  child'[i] = "absent"
  <2>1. ASSUME NEW s \in Services, Resume(s) \/ ResetBreaker(s) PROVE child' = child
    BY <1>1, <2>1 DEF Resume, BootStart, NapEnds, Wakes, LoopTurns, ResetBreaker, life
  <2>2. ASSUME NEW j \in Instances, Instance(j) \/ StopProcess(j) \/ StopAll(j)
        PROVE  child'[i] = "absent"
    <3>1. CASE HandleExit(j) \/ WatcherDies(j)
      BY <1>1, <3>1 DEF HandleExit, WatcherDies, life
    <3>2. CASE Environment(j) \/ Tell(j) \/ StopProcess(j) \/ StopAll(j)
      BY <1>1, <3>2, LifeStep DEF Environment, Tell, StopProcess, StopAll
    <3>3. QED
      BY <2>2, <3>1, <3>2 DEF Instance
  <2>3. ASSUME NEW r \in Requests,
               RestartResume(r) \/ RestartRaises(r) \/ \E s \in Services : RestartCall(r, s)
        PROVE  FALSE
    BY <1>1, <2>3 DEF RestartResume, RestartRaises, RestartCall, SInv, Calls
  <2>4. ASSUME Serve \/ Shutdown \/ Exit \/ UNCHANGED vars PROVE child' = child
    BY <2>4 DEF Serve, Shutdown, Exit, vars, life
  <2>5. QED
    BY <1>1, <2>1, <2>2, <2>3, <2>4 DEF Next
<1>2. SInv /\ [Next]_vars =>
        [phase \notin {"booting", "up"} =>
           \A i \in Instances : child[i] = "absent" => child'[i] = "absent"]_vars
  BY <1>1
<1>3. QED
  BY MonitorInvariant, <1>2, PTL DEF Spec, NoStartAfterShutdown

\* The monitor uses its children only in the ways ProcessManager was shown to allow
\* (ImplementsLifecycle): whatever callers, naps, breakers and the shutdown do, each
\* step is one step in the life of one child or leaves all children alone.
THEOREM MonitorUsesLifecycle == Spec => Life!Spec
<1>1. Init => Life!LifeInit
  BY DEF Init
<1>2. SInv /\ [Next]_vars => [Life!LifeNext]_(Life!lifeVars)
  <2> SUFFICES ASSUME SInv, [Next]_vars
               PROVE  Life!LifeNext \/ UNCHANGED life
    BY DEF life, Life!lifeVars
  <2>1. ASSUME NEW s \in Services, NEW st, StartService(s, st)
        PROVE  Life!LifeNext \/ UNCHANGED life
    BY <2>1 DEF StartService, Started, StartRaises, LaunchFor, Life!LifeNext
  <2>2. ASSUME NEW s \in Services, Resume(s) \/ ResetBreaker(s)
        PROVE  Life!LifeNext \/ UNCHANGED life
    <3>1. \/ \E st : StartService(s, st)
          \/ UNCHANGED life
      BY <2>2 DEF Resume, BootStart, NapEnds, ResetBreaker, StartService
    <3>. QED  BY <2>1, <3>1
  <2>3. ASSUME NEW i \in Instances, Instance(i) \/ StopProcess(i) \/ StopAll(i)
        PROVE  Life!LifeNext \/ UNCHANGED life
    BY <2>3 DEF Instance, Environment, Tell, HandleExit, WatcherDies, StopProcess, StopAll,
                Life!LifeNext
  <2>4. ASSUME NEW r \in Requests, RestartResume(r) \/ RestartRaises(r)
        PROVE  Life!LifeNext \/ UNCHANGED life
    BY <2>4 DEF RestartResume, RestartRaises, StartService, Started, StartRaises, LaunchFor, Life!LifeNext
  <2>5. ASSUME NEW r \in Requests, NEW s \in Services, RestartCall(r, s)
        PROVE  Life!LifeNext \/ UNCHANGED life
    <3>1. CASE StartService(s, [status EXCEPT ![s] = "exited"])
      BY <2>1, <3>1
    <3>2. CASE Life!RequestStop(current[s]) /\ current[s] # NoInstance
      <4>1. current[s] \in Instances
        BY <3>2 DEF SInv, TypeOK
      <4>. QED  BY <3>2, <4>1 DEF Life!LifeNext
    <3>. QED  BY <2>5, <3>1, <3>2 DEF RestartCall
  <2>6. CASE Serve \/ Shutdown \/ Exit \/ UNCHANGED vars
    BY <2>6 DEF Serve, Shutdown, Exit, vars
  <2>. QED  BY <2>2, <2>3, <2>4, <2>5, <2>6 DEF Next
<1>. QED  BY <1>1, <1>2, MonitorInvariant, PTL DEF Spec, Life!Spec

=============================================================================
