-------------------------- MODULE DosDriver_proofs --------------------------
(***************************************************************************)
(* Proofs about DosDriver, for every number of images, every set of BPBs,  *)
(* every line of options and whatever DOS leaves in the INIT request.      *)
(***************************************************************************)
EXTENDS DosDriver, SequenceTheorems, WellFoundedInduction, TLAPS

\* What the properties rest on.  Before a successful INIT num_drives is -1 and
\* nothing is the driver's own; after it the number of units, the table and what
\* DOS was told agree.  DOS only asks for units it was told of, and what it finds
\* in r_nunits after a failed INIT is what it left there.
Uninitialized ==
    initNeeded => num_drives = -1 /\ sent \cap BlockCommands = {}
Initialized ==
    ~initNeeded => /\ shaken /\ tableSet
                   /\ num_drives = card.num_units /\ dosUnits = card.num_units
                   /\ \A u \in Unit : u < card.num_units => my_bpbs[u] = card.bpbs[u]
                   /\ fpRequest.status # "passed on"
Asked ==
    /\ phase = "loaded" => initNeeded /\ dosUnits = 0 /\ fpRequest.nunits \in 0..26
    /\ phase = "called" => IF fpRequest.command = "INIT"
                           THEN initNeeded /\ fpRequest.nunits \in 0..26
                           ELSE fpRequest.unit < dosUnits
Answered ==
    /\ fpRequest.status # "NOT_READY"
    /\ fpRequest.command = "BUILD_BPB" /\ fpRequest.status = "DONE"
          => fpRequest.bpb = card.bpbs[fpRequest.unit]
Unshaken == ~shaken => sent = {} /\ ~debug

IInv == TypeOK /\ Uninitialized /\ Initialized /\ Asked /\ Answered /\ Unshaken

LEMMA InitEstablishes == Init => IInv
  <1> SUFFICES ASSUME Init PROVE IInv
    OBVIOUS
  <1> USE ImagesAssumption, LeftOverAssumption
  <1>1. PICK n \in LeftOver :
          fpRequest = [command |-> "INIT", unit |-> 0, status |-> "none",
                       nunits |-> n, bpb |-> ZeroBpb]
    BY DEF Init
  <1>2. fpRequest \in Requests
    BY <1>1 DEF Requests, Handled, Statuses, Bpb
  <1>3. TypeOK
    <2>1. num_drives \in -1 .. MaxImages /\ dosUnits \in 0 .. 127
      BY DEF Init
    <2>2. my_bpbs \in [Unit -> Bpb]
      BY DEF Init, Bpb
    <2>3. initNeeded \in BOOLEAN /\ debug \in BOOLEAN /\ tableSet \in BOOLEAN /\ shaken \in BOOLEAN
      BY DEF Init, DebugAtLoad
    <2> QED BY <1>2, <2>1, <2>2, <2>3 DEF Init, TypeOK
  <1>4. Uninitialized /\ Initialized /\ Unshaken
    BY DEF Init, Uninitialized, Initialized, Unshaken, DebugAtLoad
  <1>5. Asked /\ Answered
    BY <1>1 DEF Init, Asked, Answered
  <1> QED BY <1>3, <1>4, <1>5 DEF IInv

LEMMA UnitTypes ==
  ASSUME IInv PROVE fpRequest.unit \in 0..126 /\ dosUnits \in Int
  <1>1. fpRequest \in Requests /\ dosUnits \in 0 .. 127
    BY DEF IInv, TypeOK
  <1> QED BY <1>1 DEF Requests

\* The driver's own units are those DOS was told of, and none before INIT.
LEMMA OwnUnits ==
  ASSUME IInv, Mine
  PROVE  /\ ~initNeeded
         /\ fpRequest.unit \in 0 .. card.num_units - 1
         /\ fpRequest.unit \in Unit
  <1> USE ImagesAssumption
  <1>1. fpRequest.unit \in 0..126 /\ fpRequest.command # "INIT" /\ num_drives \in Int
    BY DEF IInv, TypeOK, Requests, Mine
  <1>2. Int8(fpRequest.unit) = fpRequest.unit
    BY <1>1 DEF Int8
  <1>3. fpRequest.unit <= num_drives
    BY <1>2 DEF Mine, isMyUnit
  <1>4. ~initNeeded
    BY <1>1, <1>3 DEF IInv, Uninitialized
  <1>5. fpRequest.unit < dosUnits /\ dosUnits = card.num_units
    BY <1>1, <1>4 DEF IInv, Asked, Initialized, Mine
  <1>6. card.num_units \in 0 .. MaxImages
    BY DEF IInv, TypeOK, InitPayload
  <1> QED BY <1>1, <1>4, <1>5, <1>6 DEF Unit

\* A call of DOS, and the return of a call that changes nothing in the driver.
LEMMA CallKeeps ==
  ASSUME IInv, NEW c \in Handled \cup Unhandled, NEW u \in 0..126, Call(c, u),
         IF c = "INIT" THEN initNeeded /\ fpRequest.nunits \in 0..26 ELSE u < dosUnits
  PROVE  IInv'
  <1>1. fpRequest' \in Requests
    <2>1. /\ c \in Handled \cup Unhandled /\ u \in 0..126
          /\ "none" \in Statuses /\ ZeroBpb \in Bpb
      BY DEF Statuses, Bpb
    <2>2. fpRequest \in Requests
      BY DEF IInv, TypeOK
    <2>3. fpRequest' = [fpRequest EXCEPT !.command = c, !.unit = u, !.status = "none", !.bpb = ZeroBpb]
      BY DEF Call
    <2>4. fpRequest.nunits \in 0..127
      BY <2>2 DEF Requests
    <2>5. fpRequest' = [command |-> c, unit |-> u, status |-> "none",
                        nunits |-> fpRequest.nunits, bpb |-> ZeroBpb]
      BY <2>2, <2>3 DEF Requests
    <2> QED BY <2>1, <2>4, <2>5 DEF Requests
  <1>2. /\ fpRequest'.command = c /\ fpRequest'.unit = u
        /\ fpRequest'.status = "none" /\ fpRequest'.nunits = fpRequest.nunits
    BY DEF IInv, TypeOK, Requests, Call
  <1>3. TypeOK'
    BY <1>1 DEF IInv, TypeOK, Call, driver
  <1>4. (Uninitialized /\ Initialized /\ Unshaken)'
    BY <1>2 DEF IInv, Uninitialized, Initialized, Unshaken, Call, driver
  <1>5. (Asked /\ Answered)'
    BY <1>2 DEF Asked, Answered, Call, driver
  <1> QED BY <1>3, <1>4, <1>5 DEF IInv

LEMMA ReturnKeeps ==
  ASSUME IInv, NEW s \in Statuses, NEW b \in Bpb, NEW P, Returns(s, b, P),
         phase = "called", fpRequest.command # "INIT",
         P \subseteq {"log"} \cup BlockCommands,
         initNeeded => P \cap BlockCommands = {},
         ~shaken => P = {},
         s # "NOT_READY", s = "passed on" => initNeeded,
         fpRequest.command = "BUILD_BPB" /\ s = "DONE" => b = card.bpbs[fpRequest.unit]
  PROVE  IInv'
  <1>1. /\ fpRequest' \in Requests
        /\ fpRequest'.command = fpRequest.command /\ fpRequest'.unit = fpRequest.unit
        /\ fpRequest'.status = s /\ fpRequest'.bpb = b
    BY DEF IInv, TypeOK, Requests, Returns
  <1>2. TypeOK'
    BY <1>1 DEF IInv, TypeOK, Returns, driver
  <1>3. (Uninitialized /\ Initialized /\ Unshaken)'
    BY <1>1 DEF IInv, Uninitialized, Initialized, Unshaken, Returns, driver
  <1>4. (Asked /\ Answered)'
    BY <1>1 DEF Asked, Answered, Returns, driver
  <1> QED BY <1>2, <1>3, <1>4 DEF IInv

\* An INIT that failed leaves DOS with what it had put into the request.
LEMMA InitFails ==
  ASSUME IInv, InitCalled, NEW s \in {"raw", "UNKNOWN_MEDIA"},
         InitReturns(s, fpRequest.nunits),
         UNCHANGED <<initNeeded, num_drives, my_bpbs>>,
         tableSet' \in BOOLEAN, debug' \in BOOLEAN, shaken' \in BOOLEAN,
         sent' \subseteq sent \cup {"DEVICE_INIT", "log"},
         ~shaken' => sent' = sent /\ debug' = debug /\ ~shaken
  PROVE  IInv'
  <1>1. initNeeded /\ fpRequest.nunits \in 0..26 /\ fpRequest.command = "INIT"
    BY DEF IInv, Asked, InitCalled
  <1>2. /\ fpRequest' \in Requests /\ fpRequest'.command = "INIT"
        /\ fpRequest'.status = s
    <2>1. fpRequest \in Requests /\ s \in Statuses
      BY DEF IInv, TypeOK, Statuses
    <2>2. fpRequest' = [fpRequest EXCEPT !.status = s]
      <3>1. fpRequest' = [fpRequest EXCEPT !.status = s, !.nunits = fpRequest.nunits]
        BY DEF InitReturns
      <3> QED BY <2>1, <3>1 DEF Requests
    <2> QED BY <1>1, <2>1, <2>2 DEF Requests
  <1>3. TypeOK'
    BY <1>1, <1>2 DEF IInv, TypeOK, InitReturns
  <1>4. (Uninitialized /\ Initialized /\ Unshaken)'
    BY <1>1, <1>2 DEF IInv, Uninitialized, Initialized, Unshaken, BlockCommands
  <1>5. (Asked /\ Answered)'
    BY <1>1, <1>2 DEF Asked, Answered, InitReturns
  <1> QED BY <1>3, <1>4, <1>5 DEF IInv

LEMMA DriveFoundKeeps == IInv /\ DriveFound => IInv'
  <1> SUFFICES ASSUME IInv, DriveFound PROVE IInv'
    OBVIOUS
  <1> USE ImagesAssumption
  <1>1. /\ card.num_units \in 0 .. MaxImages /\ card.bpbs \in [Unit -> Bpb]
        /\ my_bpbs \in [Unit -> Bpb]
    BY DEF IInv, TypeOK, InitPayload
  <1>2. /\ fpRequest' \in Requests
        /\ fpRequest'.command = "INIT" /\ fpRequest'.status = "DONE"
    <2>1. card.num_units \in 0..127 /\ fpRequest \in Requests /\ fpRequest.command = "INIT"
      BY <1>1 DEF IInv, TypeOK, DriveFound, InitCalled
    <2>2. fpRequest' = [fpRequest EXCEPT !.status = "DONE", !.nunits = card.num_units]
      BY DEF DriveFound, InitReturns
    <2> QED BY <2>1, <2>2 DEF Requests, Statuses
  <1>3. my_bpbs' \in [Unit -> Bpb]
    BY <1>1 DEF DriveFound, CopiedBpbs
  <1>4. \A u \in Unit : u < card.num_units => my_bpbs'[u] = card.bpbs[u]
    BY DEF DriveFound, CopiedBpbs
  <1>5. TypeOK'
    <2>1. (debug \/ DebugAsked) \in BOOLEAN
      OBVIOUS
    <2>2. /\ initNeeded' \in BOOLEAN /\ debug' \in BOOLEAN
          /\ tableSet' \in BOOLEAN /\ shaken' \in BOOLEAN
      BY <2>1 DEF DriveFound
    <2>3. num_drives' \in -1 .. MaxImages /\ dosUnits' \in 0 .. 127 /\ phase' = "ready"
      BY <1>1 DEF DriveFound, InitReturns
    <2>4. sent' \subseteq {"DEVICE_INIT", "log"} \cup BlockCommands
      BY DEF IInv, TypeOK, DriveFound, InitSends
    <2>5. card' \in InitPayload /\ options' \in Options
      BY DEF IInv, TypeOK, DriveFound, InitReturns
    <2> QED BY <1>2, <1>3, <2>2, <2>3, <2>4, <2>5 DEF TypeOK
  <1>6. (Uninitialized /\ Initialized /\ Unshaken)'
    BY <1>2, <1>4 DEF Uninitialized, Initialized, Unshaken, DriveFound, InitReturns
  <1>7. (Asked /\ Answered)'
    BY <1>2 DEF Asked, Answered, DriveFound, InitReturns
  <1> QED BY <1>5, <1>6, <1>7 DEF IInv

LEMMA DeviceInterruptKeeps == IInv /\ DeviceInterrupt => IInv'
  <1> SUFFICES ASSUME IInv, DeviceInterrupt PROVE IInv'
    OBVIOUS
  <1> USE DEF Bpb, Statuses
  <1>1. CASE HandshakeFails
    BY <1>1, InitFails DEF HandshakeFails, driver, IInv, TypeOK
  <1>2. CASE OptionsFail
    BY <1>2, InitFails DEF OptionsFail, IInv, TypeOK
  <1>3. CASE ExchangeFails
    BY <1>3, InitFails DEF ExchangeFails, InitSends, IInv, TypeOK
  <1>4. CASE DriveFound
    BY <1>4, DriveFoundKeeps
  <1>5. CASE UnknownCommand
    BY <1>5, ReturnKeeps DEF UnknownCommand, Unhandled
  <1>6. ASSUME Mine
        PROVE  /\ ~initNeeded /\ shaken
               /\ fpRequest.unit \in Unit /\ tableSet
               /\ my_bpbs[fpRequest.unit] = card.bpbs[fpRequest.unit]
               /\ my_bpbs[fpRequest.unit] \in Bpb
               /\ phase = "called" /\ fpRequest.command # "INIT"
    <2>1. ~initNeeded /\ fpRequest.unit \in Unit /\ fpRequest.unit \in 0 .. card.num_units - 1
      BY <1>6, OwnUnits
    <2>2. my_bpbs \in [Unit -> Bpb] /\ card.num_units \in Int
      BY DEF IInv, TypeOK, InitPayload
    <2>3. shaken /\ tableSet /\ \A u \in Unit : u < card.num_units => my_bpbs[u] = card.bpbs[u]
      BY <2>1 DEF IInv, Initialized
    <2>4. fpRequest.unit < card.num_units
      BY <2>1, <2>2
    <2>5. my_bpbs[fpRequest.unit] = card.bpbs[fpRequest.unit]
      BY <2>1, <2>3, <2>4
    <2>6. my_bpbs[fpRequest.unit] \in Bpb
      BY <2>1, <2>2
    <2>7. phase = "called" /\ fpRequest.command # "INIT"
      BY <1>6 DEF Mine
    <2> QED BY <2>1, <2>3, <2>5, <2>6, <2>7
  <1>7. CASE readBlock
    <2>1. PICK s \in {"DONE", "UNKNOWN_MEDIA"} : Returns(s, ZeroBpb, DebugLog \cup {"READ"})
      BY <1>7 DEF readBlock
    <2> QED BY <1>6, <1>7, <2>1, ReturnKeeps DEF readBlock, DebugLog, BlockCommands
  <1>8. CASE write_block
    <2>1. PICK s \in {"DONE", "UNKNOWN_MEDIA"} :
             Returns(s, ZeroBpb, DebugLog \cup {fpRequest.command})
      BY <1>6, <1>8 DEF write_block
    <2>2. fpRequest.command \in BlockCommands /\ fpRequest.command # "BUILD_BPB" /\ Mine
      BY <1>8 DEF write_block, BlockCommands
    <2>3. DebugLog \cup {fpRequest.command} \subseteq {"log"} \cup BlockCommands
      BY <2>2 DEF DebugLog
    <2>4. phase = "called" /\ fpRequest.command # "INIT" /\ ~initNeeded /\ shaken
      BY <1>6, <2>2
    <2>5. s \in Statuses /\ s # "NOT_READY" /\ s # "passed on" /\ ZeroBpb \in Bpb
      BY <2>1
    <2> HIDE DEF Bpb, Statuses
    <2> QED BY <2>1, <2>2, <2>3, <2>4, <2>5, ReturnKeeps
  <1>9. CASE buildBpb
    <2>1. Returns("DONE", my_bpbs[fpRequest.unit], DebugLog)
      BY <1>6, <1>9 DEF buildBpb
    <2> QED BY <1>6, <1>9, <2>1, ReturnKeeps DEF buildBpb, DebugLog, BlockCommands
  <1>10. CASE IOCTLInput
    <2>1. PICK s \in {"DONE", "UNKNOWN_COMMAND"} : Returns(s, ZeroBpb, DebugLog)
      BY <1>10 DEF IOCTLInput
    <2> QED BY <1>6, <1>10, <2>1, ReturnKeeps DEF IOCTLInput, DebugLog, BlockCommands
  <1>11. CASE OtherHandler
    BY <1>6, <1>11, ReturnKeeps DEF OtherHandler, DebugLog, BlockCommands
  <1>12. CASE PassOn
    <2>1. initNeeded
      <3> SUFFICES ASSUME ~initNeeded PROVE FALSE
        OBVIOUS
      <3>1. phase = "called" /\ fpRequest.command # "INIT" /\ ~isMyUnit(fpRequest.unit)
        BY <1>12 DEF PassOn
      <3>2. dosUnits \in Int /\ fpRequest.unit \in 0..126
        BY UnitTypes
      <3>3. num_drives = dosUnits /\ fpRequest.unit < dosUnits
        BY <3>1 DEF IInv, Initialized, Asked
      <3>4. Int8(fpRequest.unit) = fpRequest.unit
        BY <3>2 DEF Int8
      <3> QED BY <3>1, <3>2, <3>3, <3>4 DEF isMyUnit
    <2>2. ~shaken => DebugLog = {}
      BY DEF IInv, Unshaken, DebugLog
    <2> QED BY <1>12, <2>1, <2>2, ReturnKeeps DEF PassOn, DebugLog, BlockCommands
  <1> QED BY <1>1, <1>2, <1>3, <1>4, <1>5, <1>7, <1>8, <1>9, <1>10, <1>11, <1>12
          DEF DeviceInterrupt, deviceInit

\* The invariant holds in every state: an INIT that succeeds makes the table, the
\* number of units and DOS's idea of it agree, and no step breaks that again.
THEOREM Inductive == Spec => []IInv
  <1>1. IInv /\ [Next]_vars => IInv'
    <2> SUFFICES ASSUME IInv, [Next]_vars PROVE IInv'
      OBVIOUS
    <2>1. CASE DosInits
      <3>1. initNeeded /\ fpRequest.nunits \in 0..26
        BY <2>1 DEF DosInits, IInv, Asked
      <3> QED BY <2>1, <3>1, CallKeeps DEF DosInits, Handled
    <2>2. CASE DosAsks
      <3>1. PICK c \in (Handled \ {"INIT"}) \cup Unhandled, u \in 0 .. dosUnits - 1 : Call(c, u)
        BY <2>2 DEF DosAsks
      <3>2. u \in 0..126 /\ u < dosUnits
        BY <3>1 DEF IInv, TypeOK
      <3>3. c # "INIT"
        BY <3>1 DEF Unhandled
      <3> QED BY <3>1, <3>2, <3>3, CallKeeps
    <2>3. CASE DeviceInterrupt
      BY <2>3, DeviceInterruptKeeps
    <2>4. CASE UNCHANGED vars
      BY <2>4 DEF vars, driver, IInv, TypeOK, Uninitialized, Initialized, Asked,
                  Answered, Unshaken
    <2> QED BY <2>1, <2>2, <2>3, <2>4 DEF Next
  <1> QED BY <1>1, InitEstablishes, PTL DEF Spec

\* Every variable has its type: no BPB is stored past the array, whatever the Pico
\* reports (deviceInit's copy loop).
THEOREM TypeCorrect == Spec => []TypeOK
  BY Inductive, PTL DEF IInv

\* No read or write leaves the driver before INIT has succeeded (readBlock,
\* isMyUnit, num_drives).
THEOREM NoTransferBeforeInit == Spec => []NoTransferWithoutInit
  <1>1. IInv => NoTransferWithoutInit
    BY DEF IInv, Uninitialized, NoTransferWithoutInit
  <1> QED BY <1>1, Inductive, PTL

\* A Pico that never answered the handshake is never sent a payload, log lines
\* included (deviceInit, writeToDriveLog).
THEOREM NothingForAnAbsentPico == Spec => []AbsentPicoIsLeftAlone
  <1>1. IInv => AbsentPicoIsLeftAlone
    BY DEF IInv, Unshaken, AbsentPicoIsLeftAlone
  <1> QED BY <1>1, Inductive, PTL

\* DOS gets the BPBs of the card, unit by unit (deviceInit, buildBpb).
THEOREM BpbsAreRight == Spec => []BpbsAreTheCards
  <1>1. ASSUME IInv PROVE BpbsAreTheCards
    <2>1. ASSUME ~initNeeded, NEW u \in 0 .. dosUnits - 1
          PROVE  tableSet /\ my_bpbs[u] = card.bpbs[u]
      <3>1. dosUnits = card.num_units /\ card.num_units \in 0 .. MaxImages
        BY <1>1, <2>1 DEF IInv, Initialized, TypeOK, InitPayload
      <3>2. u \in Unit /\ u < card.num_units
        BY <3>1, ImagesAssumption DEF Unit
      <3> QED BY <1>1, <2>1, <3>2 DEF IInv, Initialized
    <2> QED BY <1>1, <2>1 DEF IInv, Answered, BpbsAreTheCards
  <1> QED BY <1>1, Inductive, PTL

\* Units DOS was told of are served by this driver, and no write is refused as
\* not ready (isMyUnit, write_block).
THEOREM UnitsServed == Spec => []OwnUnitsAreServed
  <1>1. IInv => OwnUnitsAreServed
    BY DEF IInv, Initialized, Answered, OwnUnitsAreServed
  <1> QED BY <1>1, Inductive, PTL

-----------------------------------------------------------------------------
(* Loops.  A loop counts from 0 to n; what holds before it and is kept by a  *)
(* round holds in every round.                                               *)

LEMMA SetInduction ==
    ASSUME NEW T, 0 \in T, \A i \in Nat : i \in T => i + 1 \in T
    PROVE  Nat \subseteq T
<1> SUFFICES ASSUME ~(Nat \subseteq T) PROVE FALSE
  OBVIOUS
<1> DEFINE Less == { pair \in Nat \X Nat : pair[1] < pair[2] }
           Rest == Nat \ T
<1>1. IsWellFoundedOn(Less, Nat)
  BY NatLessThanWellFounded, Zenon DEF OpToRel
<1>2. Rest \subseteq Nat /\ Rest # {}
  OBVIOUS
<1>3. PICK least \in Rest : \A i \in Rest : <<i, least>> \notin Less
  <2> HIDE DEF Less, Rest
  <2> QED BY <1>1, <1>2, WFMin
<1>4. least \in Nat /\ least # 0 /\ least - 1 \in Nat /\ (least - 1) + 1 = least
  OBVIOUS
<1>5. least - 1 \in Rest
  BY <1>4
<1>6. <<least - 1, least>> \in Less
  BY <1>4
<1> QED BY <1>3, <1>5, <1>6

LEMMA LoopKeeps ==
    ASSUME NEW n \in Nat, NEW T, 0 \in T, \A i \in 1 .. n : i - 1 \in T => i \in T
    PROVE  \A i \in 0 .. n : i \in T
<1> DEFINE U == { i \in Nat : i <= n => i \in T }
<1>1. 0 \in U
  OBVIOUS
<1>2. ASSUME NEW i \in Nat, i \in U PROVE i + 1 \in U
  <2>1. CASE i + 1 <= n
    <3>1. i + 1 \in 1 .. n /\ (i + 1) - 1 = i /\ i <= n
      BY <2>1
    <3> QED BY <1>2, <3>1
  <2>2. CASE ~(i + 1 <= n)
    BY <2>2
  <2> QED BY <2>1, <2>2
<1>3. Nat \subseteq U
  <2> HIDE DEF U
  <2> QED BY <1>1, <1>2, SetInduction
<1> QED BY <1>3

\* f has the values of a loop of n rounds that begins with a.
Loop(f, n, S, a, step) ==
    f \in [0 .. n -> S] /\ f[0] = a /\ \A i \in 1 .. n : f[i] = step[i][f[i - 1]]

\* A loop that computes each value from the one before and the round has a value in
\* every round: the recursive functions of Crc8 exist.
LEMMA LoopExists ==
    ASSUME NEW n \in Nat, NEW S, NEW a \in S, NEW step \in [1 .. n -> [S -> S]]
    PROVE  \E f : Loop(f, n, S, a, step)
<1> DEFINE Run(m, f) == f \in [0 .. m -> S] /\ f[0] = a
                        /\ \A i \in 1 .. m : f[i] = step[i][f[i - 1]]
           T == { m \in 0 .. n : \E f \in [0 .. m -> S] : Run(m, f) }
<1>1. 0 \in T
  <2> DEFINE g == [j \in 0 .. 0 |-> a]
  <2>1. g \in [0 .. 0 -> S] /\ Run(0, g)
    OBVIOUS
  <2> HIDE DEF Run, g
  <2> QED BY <2>1
<1>2. ASSUME NEW m \in 1 .. n, m - 1 \in T PROVE m \in T
  <2>1. PICK f \in [0 .. m - 1 -> S] : Run(m - 1, f)
    BY <1>2
  <2> DEFINE g == [j \in 0 .. m |-> IF j = m THEN step[m][f[m - 1]] ELSE f[j]]
  <2>2. m - 1 \in 0 .. m - 1 /\ f[m - 1] \in S /\ \A j \in 0 .. m : j # m => j \in 0 .. m - 1
    OBVIOUS
  <2>3. step[m][f[m - 1]] \in S
    BY <2>2
  <2>4. g \in [0 .. m -> S]
    BY <2>2, <2>3
  <2>5. g[0] = a
    BY <2>1
  <2>6. ASSUME NEW i \in 1 .. m PROVE g[i] = step[i][g[i - 1]]
    <3>1. i - 1 \in 0 .. m /\ i - 1 # m /\ g[i - 1] = f[i - 1]
      OBVIOUS
    <3>2. CASE i = m
      BY <3>1, <3>2
    <3>3. CASE i # m
      <4>1. i \in 1 .. m - 1 /\ g[i] = f[i]
        BY <3>3
      <4> QED BY <2>1, <3>1, <4>1
    <3> QED BY <3>2, <3>3
  <2>7. Run(m, g)
    BY <2>4, <2>5, <2>6
  <2> HIDE DEF Run, g
  <2> QED BY <2>4, <2>7
<1>3. n \in T
  <2>1. \A i \in 0 .. n : i \in T
    <3> HIDE DEF T
    <3> QED BY <1>1, <1>2, LoopKeeps
  <2> QED BY <2>1
<1> QED BY <1>3 DEF Loop

-----------------------------------------------------------------------------
(* The line of options *)

LEMMA Least ==
    ASSUME NEW S \in SUBSET Nat, S # {}
    PROVE  \E m \in S : \A i \in S : m <= i
<1> DEFINE Less == { pair \in Nat \X Nat : pair[1] < pair[2] }
<1>1. IsWellFoundedOn(Less, Nat)
  BY NatLessThanWellFounded, Zenon DEF OpToRel
<1>2. PICK m \in S : \A i \in S : <<i, m>> \notin Less
  <2> HIDE DEF Less
  <2> QED BY <1>1, WFMin
<1>3. \A i \in S : m <= i
  <2>1. m \in Nat /\ \A i \in S : i \in Nat /\ ~(i < m)
    BY <1>2
  <2> QED BY <2>1
<1> QED BY <1>3

LEMMA AtIs ==
    ASSUME NEW line \in Seq(Char), NEW p \in Nat \ {0}
    PROVE  /\ At(line, p) \in Char \cup {"eol"}
           /\ p <= Len(line) => At(line, p) = line[p] /\ At(line, p) \in Char
           /\ p > Len(line) => At(line, p) = "eol"
           /\ At(line, p) # "eol" <=> p <= Len(line)
<1>1. Len(line) \in Nat /\ DOMAIN line = 1 .. Len(line)
  BY LenProperties
<1>2. "eol" \notin Char
  BY DEF Char, Blank, Digits, Letters
<1>3. CASE p <= Len(line)
  <2>1. p \in DOMAIN line /\ line[p] \in Char
    BY <1>1, <1>3, ElementOfSeq
  <2> QED BY <1>2, <1>3, <2>1 DEF At
<1>4. CASE p > Len(line)
  BY <1>1, <1>4 DEF At
<1> QED BY <1>1, <1>3, <1>4

LEMMA SpanIs ==
    ASSUME NEW line \in Seq(Char), NEW p \in Nat \ {0}, p <= Len(line) + 1,
           NEW chars, "eol" \notin chars
    PROVE  /\ Span(line, p, chars) \in p .. Len(line) + 1
           /\ At(line, Span(line, p, chars)) \notin chars
           /\ \A r \in p .. Span(line, p, chars) - 1 : line[r] \in chars
<1> DEFINE S == { q \in p .. Len(line) + 1 : At(line, q) \notin chars }
<1>1. Len(line) \in Nat
  BY LenProperties
<1>2. Len(line) + 1 \in S
  BY <1>1, AtIs
<1>3. S \subseteq Nat
  BY <1>1
<1>4. PICK q \in S : \A i \in S : q <= i
  <2> HIDE DEF S
  <2> QED BY <1>2, <1>3, Least
<1>5. q \in p .. Len(line) + 1 /\ At(line, q) \notin chars
  BY <1>4
<1>6. ASSUME NEW r \in p .. q - 1 PROVE line[r] \in chars
  <2>1. r \in p .. Len(line) + 1 /\ r \in Nat \ {0} /\ r <= Len(line) /\ ~(q <= r)
    BY <1>1, <1>5
  <2>2. At(line, r) \in chars
    BY <1>4, <2>1
  <2> QED BY <2>1, <2>2, AtIs
<1> HIDE DEF S
<1>7. \E x \in p .. Len(line) + 1 :
         At(line, x) \notin chars /\ \A r \in p .. x - 1 : line[r] \in chars
  BY <1>5, <1>6
<1> QED BY <1>7 DEF Span

LEMMA NameEndIs ==
    ASSUME NEW line \in Seq(Char)
    PROVE  /\ NameEnd(line) \in 1 .. Len(line) + 1
           /\ At(line, NameEnd(line)) \in Blank \cup {"eol"}
<1> DEFINE S == { q \in 1 .. Len(line) + 1 : At(line, q) \in Blank \cup {"eol"} }
<1>1. Len(line) \in Nat
  BY LenProperties
<1>2. Len(line) + 1 \in S
  BY <1>1, AtIs
<1>3. S \subseteq Nat
  BY <1>1
<1>4. PICK q \in S : \A i \in S : q <= i
  <2> HIDE DEF S
  <2> QED BY <1>2, <1>3, Least
<1>5. q \in 1 .. Len(line) + 1 /\ At(line, q) \in Blank \cup {"eol"}
  BY <1>4
<1>6. ASSUME NEW r \in 1 .. q - 1 PROVE line[r] \notin Blank
  <2>1. r \in 1 .. Len(line) + 1 /\ r \in Nat \ {0} /\ r <= Len(line) /\ ~(q <= r)
    BY <1>1, <1>5
  <2>2. At(line, r) \notin Blank
    BY <1>4, <2>1
  <2> QED BY <2>1, <2>2, AtIs
<1> HIDE DEF S
<1>7. \E x \in 1 .. Len(line) + 1 :
         At(line, x) \in Blank \cup {"eol"} /\ \A r \in 1 .. x - 1 : line[r] \notin Blank
  BY <1>5, <1>6
<1> QED BY <1>7 DEF NameEnd

LEMMA FollowsIs ==
    /\ \A c \in Blank \cup {"D", "K"} : Follows[c] = Option_or_end
    /\ Follows["/"] = Letters
    /\ \A c \in {"P", "B"} : Follows[c] = {"="}
    /\ Follows["="] = Digits
    /\ \A c \in Digits : Follows[c] = Digits \cup Option_or_end
<1>1. Blank \cup {"D", "K", "/", "P", "B", "="} \cup Digits \subseteq Char
  BY DEF Char, Blank, Letters
<1> QED BY <1>1 DEF Follows, Blank, Digits

\* What an option, or the blanks after one, may end with.
Ends == Blank \cup {"D", "K"} \cup Digits

LEMMA EndsFollow ==
    /\ \A c \in Ends : Option_or_end \subseteq Follows[c]
    /\ Blank \subseteq Option_or_end /\ Blank \subseteq Ends
    /\ Blank \cap Digits = {} /\ "eol" \notin Blank \cup Digits \cup Letters
BY FollowsIs DEF Ends, Option_or_end, Blank, Digits, Letters

\* Where a line has been read up to: the name and whole options, and all that is
\* between them follows as it should.
Scanned(line, at) ==
    /\ at \in NameEnd(line) .. Len(line) + 1
    /\ At(line, at) \notin Blank
    /\ \A p \in NameEnd(line) .. at - 2 : At(line, p + 1) \in Follows[line[p]]
    /\ at = NameEnd(line) => at = Len(line) + 1
    /\ at > NameEnd(line) =>
          line[at - 1] \in Ends /\ (line[at - 1] \in Digits => At(line, at) \notin Digits)

LEMMA BlanksAre ==
    ASSUME NEW line \in Seq(Char), NEW e \in Nat \ {0}, e <= Len(line) + 1
    PROVE  LET a == Span(line, e, Blank)
           IN  /\ a \in e .. Len(line) + 1 /\ At(line, a) \notin Blank
               /\ a > e => line[a - 1] \in Blank /\ At(line, e) \in Blank
               /\ \A p \in e .. a - 2 : At(line, p + 1) \in Follows[line[p]]
<1> DEFINE a == Span(line, e, Blank)
<1>1. /\ a \in e .. Len(line) + 1 /\ At(line, a) \notin Blank
      /\ \A r \in e .. a - 1 : line[r] \in Blank
  BY SpanIs, EndsFollow
<1> HIDE DEF a
<1>2. Len(line) \in Nat
  BY LenProperties
<1>3. \A r \in e .. a - 1 : At(line, r) \in Blank
  <2>1. ASSUME NEW r \in e .. a - 1 PROVE r \in Nat \ {0} /\ r <= Len(line)
    BY <1>1, <1>2
  <2> QED BY <1>1, <2>1, AtIs
<1>4. ASSUME a > e PROVE line[a - 1] \in Blank /\ At(line, e) \in Blank
  <2>1. e \in e .. a - 1 /\ a - 1 \in e .. a - 1
    BY <1>1, <1>2, <1>4
  <2> QED BY <1>1, <1>3, <2>1
<1>5. ASSUME NEW p \in e .. a - 2 PROVE At(line, p + 1) \in Follows[line[p]]
  <2>1. p \in e .. a - 1 /\ p + 1 \in e .. a - 1
    BY <1>1, <1>2
  <2>2. line[p] \in Ends /\ At(line, p + 1) \in Option_or_end
    BY <1>1, <1>3, <2>1, EndsFollow
  <2> QED BY <2>2, EndsFollow
<1> QED BY <1>1, <1>4, <1>5 DEF a

LEMMA NameIsScanned ==
    ASSUME NEW line \in Seq(Char)
    PROVE  Scanned(line, Span(line, NameEnd(line), Blank))
<1>1. PICK e : e = NameEnd(line)
  OBVIOUS
<1>2. PICK a : a = Span(line, NameEnd(line), Blank)
  OBVIOUS
<1>3. Len(line) \in Nat
  BY LenProperties
<1>4. e \in Nat \ {0} /\ e <= Len(line) + 1 /\ At(line, e) \in Blank \cup {"eol"}
  BY <1>1, <1>3, NameEndIs
<1>5. /\ a \in e .. Len(line) + 1 /\ At(line, a) \notin Blank
      /\ a > e => line[a - 1] \in Blank /\ At(line, e) \in Blank
      /\ \A p \in e .. a - 2 : At(line, p + 1) \in Follows[line[p]]
  BY <1>1, <1>2, <1>4, BlanksAre
<1>6. a = e => a = Len(line) + 1
  <2>1. CASE a = e
    <3>1. ~(e <= Len(line))
      BY <1>4, <1>5, <2>1, AtIs
    <3> QED BY <1>3, <1>4, <2>1, <3>1
  <2> QED BY <2>1
<1> QED BY <1>1, <1>2, <1>5, <1>6, EndsFollow DEF Scanned

\* An option as Round wants it to be, and where it ends.
Option(line, at) ==
    /\ At(line, at) = "/" /\ At(line, at + 1) \in Letters
    /\ At(line, at + 1) \in {"P", "B"} => NumberAt(line, at + 2)
OptionEnd(line, at) ==
    IF At(line, at + 1) \in {"P", "B"} THEN Span(line, at + 3, Digits) ELSE at + 2

LEMMA OptionIs ==
    ASSUME NEW line \in Seq(Char), NEW at \in Nat \ {0}, at <= Len(line), Option(line, at)
    PROVE  LET e == OptionEnd(line, at)
           IN  /\ e \in at + 2 .. Len(line) + 1 /\ at + 1 <= Len(line)
               /\ \A p \in at .. e - 2 : At(line, p + 1) \in Follows[line[p]]
               /\ line[e - 1] \in {"D", "K"} \cup Digits
               /\ line[e - 1] \in Digits => At(line, e) \notin Digits
<1>1. Len(line) \in Nat
  BY LenProperties
<1>2. /\ line[at] = "/" /\ line[at + 1] \in Letters /\ line[at + 1] = At(line, at + 1)
      /\ at + 1 <= Len(line)
  <2>1. line[at] = "/"
    BY AtIs DEF Option
  <2>2. At(line, at + 1) # "eol" /\ At(line, at + 1) \in Letters
    BY EndsFollow DEF Option
  <2>3. at + 1 <= Len(line) /\ line[at + 1] = At(line, at + 1)
    <3>1. at + 1 \in Nat \ {0}
      OBVIOUS
    <3> QED BY <2>2, <3>1, AtIs
  <2> QED BY <2>1, <2>2, <2>3
<1>3. At(line, at + 1) \in Follows[line[at]]
  BY <1>2, FollowsIs
<1>4. CASE line[at + 1] \notin {"P", "B"}
  <2>1. OptionEnd(line, at) = at + 2 /\ line[at + 1] \in {"D", "K"}
    BY <1>2, <1>4 DEF OptionEnd, Letters
  <2>2. line[at + 1] \notin Digits
    BY <2>1 DEF Digits
  <2>3. \A p \in at .. (at + 2) - 2 : p = at
    OBVIOUS
  <2>4. (at + 2) - 1 = at + 1 /\ at + 2 \in at + 2 .. Len(line) + 1
    BY <1>1, <1>2
  <2> QED BY <1>2, <1>3, <2>1, <2>2, <2>3, <2>4
<1>5. CASE line[at + 1] \in {"P", "B"}
  <2>1. PICK e : e = Span(line, at + 3, Digits)
    OBVIOUS
  <2>2. At(line, at + 2) = "=" /\ At(line, at + 3) \in Digits
    <3>1. (at + 2) + 1 = at + 3
      OBVIOUS
    <3> QED BY <1>2, <1>5, <3>1 DEF Option, NumberAt
  <2>3. /\ at + 2 <= Len(line) /\ line[at + 2] = "="
        /\ at + 3 <= Len(line) /\ at + 3 \in Nat \ {0} /\ line[at + 3] = At(line, at + 3)
    <3>1. at + 2 \in Nat \ {0} /\ at + 3 \in Nat \ {0}
      OBVIOUS
    <3>2. At(line, at + 3) # "eol" /\ At(line, at + 2) # "eol"
      BY <2>2, EndsFollow
    <3> QED BY <2>2, <3>1, <3>2, AtIs
  <2>4. at + 3 <= Len(line) + 1
    BY <1>1, <2>3
  <2>5. /\ e \in at + 3 .. Len(line) + 1 /\ At(line, e) \notin Digits
        /\ \A r \in at + 3 .. e - 1 : line[r] \in Digits
    BY <2>1, <2>3, <2>4, SpanIs, EndsFollow
  <2>6. e # at + 3
    BY <2>2, <2>5
  <2>7. e - 1 \in at + 3 .. e - 1 /\ e \in at + 2 .. Len(line) + 1
    BY <1>1, <2>5, <2>6
  <2>8. ASSUME NEW p \in at .. e - 2 PROVE At(line, p + 1) \in Follows[line[p]]
    <3>1. p = at \/ p = at + 1 \/ p = at + 2 \/ (p \in at + 3 .. e - 1 /\ p + 1 \in at + 3 .. e - 1)
      BY <1>1, <2>5
    <3>2. CASE p = at
      BY <1>3, <3>2
    <3>3. CASE p = at + 1
      <4>1. p + 1 = at + 2
        BY <3>3
      <4> QED BY <1>5, <2>2, <3>3, <4>1, FollowsIs
    <3>4. CASE p = at + 2
      <4>1. p + 1 = at + 3
        BY <3>4
      <4> QED BY <2>2, <2>3, <3>4, <4>1, FollowsIs
    <3>5. CASE p \in at + 3 .. e - 1 /\ p + 1 \in at + 3 .. e - 1
      <4>1. line[p] \in Digits /\ line[p + 1] \in Digits
        BY <2>5, <3>5
      <4>2. p + 1 \in Nat \ {0} /\ p + 1 <= Len(line)
        BY <1>1, <2>5, <3>5
      <4>3. At(line, p + 1) = line[p + 1]
        BY <4>2, AtIs
      <4> QED BY <4>1, <4>3, FollowsIs
    <3> QED BY <3>1, <3>2, <3>3, <3>4, <3>5
  <2>9. OptionEnd(line, at) = e
    BY <1>2, <1>5, <2>1 DEF OptionEnd
  <2> QED BY <1>2, <2>5, <2>7, <2>8, <2>9
<1> QED BY <1>4, <1>5

\* What parse_options has set so far.
Partitions(line) ==
    {0} \cup { Value(SubSeq(line, a, b)) % 256 : a \in 1 .. Len(line) + 4, b \in 0 .. Len(line) + 1 }
States(line) == [ok : BOOLEAN, at : 1 .. Len(line) + 1, debug : BOOLEAN,
                 partition : Partitions(line), port : {0, 1}]
Start(line) == [ok |-> TRUE, at |-> Span(line, NameEnd(line), Blank), debug |-> FALSE,
                partition |-> 0, port |-> 0]
Step(line, s) == IF ~s.ok \/ s.at > Len(line) THEN s ELSE Round(line, s)

\* The line asks for debug.
AsksDebug(line) == \E p \in 2 .. Len(line) : line[p - 1] = "/" /\ line[p] = "D"

LEMMA StartIs ==
    ASSUME NEW line \in Seq(Char)
    PROVE  Start(line) \in States(line)
<1>1. Len(line) \in Nat
  BY LenProperties
<1>2. PICK e : e = NameEnd(line)
  OBVIOUS
<1>3. e \in Nat \ {0} /\ e <= Len(line) + 1
  BY <1>1, <1>2, NameEndIs
<1>4. Span(line, e, Blank) \in e .. Len(line) + 1
  BY <1>3, BlanksAre
<1>5. Span(line, NameEnd(line), Blank) \in 1 .. Len(line) + 1
  BY <1>1, <1>2, <1>3, <1>4
<1>6. 0 \in Partitions(line)
  BY DEF Partitions
<1> QED BY <1>5, <1>6 DEF Start, States

\* A round either refuses the line or reads one option and the blanks after it.
LEMMA RoundIs ==
    ASSUME NEW line \in Seq(Char), NEW s \in States(line), s.at <= Len(line)
    PROVE  LET r == Round(line, s)
           IN  /\ r \in States(line)
               /\ r.ok <=> Option(line, s.at)
               /\ Option(line, s.at) =>
                     r.at = Span(line, OptionEnd(line, s.at), Blank)
               /\ r.debug => s.debug \/ (Option(line, s.at) /\ At(line, s.at + 1) = "D")
<1>1. Len(line) \in Nat /\ s.at \in Nat \ {0} /\ s.partition \in Partitions(line)
  BY LenProperties DEF States
<1>2. CASE ~Option(line, s.at)
  <2>1. Round(line, s) = [s EXCEPT !.ok = FALSE]
    BY <1>2 DEF Round, Option
  <2>2. [s EXCEPT !.ok = FALSE] \in States(line)
    BY DEF States
  <2>3. [s EXCEPT !.ok = FALSE].ok = FALSE /\ [s EXCEPT !.ok = FALSE].debug = s.debug
    BY DEF States
  <2> QED BY <1>2, <2>1, <2>2, <2>3
<1>3. CASE Option(line, s.at)
  <2>1. PICK v : v = Value(SubSeq(line, s.at + 3, Span(line, s.at + 3, Digits) - 1))
    OBVIOUS
  <2>2. PICK e : e = OptionEnd(line, s.at)
    OBVIOUS
  <2>3. e \in s.at + 2 .. Len(line) + 1
    BY <1>1, <1>3, <2>2, OptionIs
  <2>4. PICK partition : partition = IF At(line, s.at + 1) = "P" THEN Stored(s.partition, v, s.debug)
                                                                  ELSE s.partition
    OBVIOUS
  <2>5. partition \in Partitions(line)
    <3>1. CASE At(line, s.at + 1) = "P"
      <4>1. e = Span(line, s.at + 3, Digits)
        BY <2>2, <3>1 DEF OptionEnd
      <4>2. s.at + 3 \in 1 .. Len(line) + 4 /\ e - 1 \in 0 .. Len(line) + 1
        BY <1>1, <2>3
      <4>3. v % 256 \in Partitions(line)
        BY <2>1, <4>1, <4>2 DEF Partitions
      <4> QED BY <1>1, <2>4, <3>1, <4>3 DEF Stored
    <3>2. CASE At(line, s.at + 1) # "P"
      BY <1>1, <2>4, <3>2
    <3> QED BY <3>1, <3>2
  <2>6. Span(line, e, Blank) \in 1 .. Len(line) + 1
    <3>1. e \in Nat \ {0} /\ e <= Len(line) + 1
      BY <1>1, <2>3
    <3>2. Span(line, e, Blank) \in e .. Len(line) + 1
      BY <3>1, BlanksAre
    <3> QED BY <1>1, <3>1, <3>2
  <2>7. Round(line, s) =
            [ok        |-> TRUE,
             at        |-> Span(line, e, Blank),
             debug     |-> s.debug \/ At(line, s.at + 1) = "D",
             partition |-> partition,
             port      |-> IF At(line, s.at + 1) = "B" THEN 1 ELSE s.port]
    BY <1>3, <2>1, <2>2, <2>4 DEF Round, Option, OptionEnd
  <2>8. (s.debug \/ At(line, s.at + 1) = "D") \in BOOLEAN
    BY DEF States
  <2>9. (IF At(line, s.at + 1) = "B" THEN 1 ELSE s.port) \in {0, 1}
    BY DEF States
  <2>10. Round(line, s) \in States(line)
    BY <2>5, <2>6, <2>7, <2>8, <2>9 DEF States
  <2>11. /\ Round(line, s).ok /\ Round(line, s).at = Span(line, e, Blank)
         /\ Round(line, s).debug = (s.debug \/ At(line, s.at + 1) = "D")
    BY <2>7
  <2> QED BY <1>3, <2>2, <2>10, <2>11
<1> QED BY <1>2, <1>3

\* What holds of every round: all that is read is as it should be, the rest of a good
\* line is as well, and a round gets on.
Sound(line, n, s) ==
    /\ s.ok => Scanned(line, s.at) /\ (s.at > n \/ s.at > Len(line))
    /\ WellFormed(line) => s.ok
    /\ s.debug => AsksDebug(line)

LEMMA OptionScanned ==
    ASSUME NEW line \in Seq(Char), NEW at \in Nat \ {0}, at <= Len(line),
           Scanned(line, at), Option(line, at)
    PROVE  Scanned(line, Span(line, OptionEnd(line, at), Blank))
           /\ Span(line, OptionEnd(line, at), Blank) >= at + 2
<1>1. PICK e : e = OptionEnd(line, at)
  OBVIOUS
<1>2. /\ e \in at + 2 .. Len(line) + 1 /\ at + 1 <= Len(line)
      /\ \A p \in at .. e - 2 : At(line, p + 1) \in Follows[line[p]]
      /\ line[e - 1] \in {"D", "K"} \cup Digits
      /\ line[e - 1] \in Digits => At(line, e) \notin Digits
  BY <1>1, OptionIs
<1>3. Len(line) \in Nat /\ e \in Nat \ {0} /\ e <= Len(line) + 1
  BY <1>2, LenProperties
<1>4. PICK a : a = Span(line, e, Blank)
  OBVIOUS
<1>5. /\ a \in e .. Len(line) + 1 /\ At(line, a) \notin Blank
      /\ a > e => line[a - 1] \in Blank /\ At(line, e) \in Blank
      /\ \A p \in e .. a - 2 : At(line, p + 1) \in Follows[line[p]]
  BY <1>3, <1>4, BlanksAre
<1>6. PICK b : b = NameEnd(line)
  OBVIOUS
<1>7. /\ b \in Nat \ {0} /\ at \in b .. Len(line) + 1
      /\ \A p \in b .. at - 2 : At(line, p + 1) \in Follows[line[p]]
      /\ at > b /\ line[at - 1] \in Ends
  <2>1. b \in 1 .. Len(line) + 1
    BY <1>6, NameEndIs
  <2>2. /\ at \in b .. Len(line) + 1
        /\ \A p \in b .. at - 2 : At(line, p + 1) \in Follows[line[p]]
        /\ at = b => at = Len(line) + 1
        /\ at > b => line[at - 1] \in Ends
    BY <1>6 DEF Scanned
  <2>3. at # b /\ at > b
    BY <1>3, <2>1, <2>2
  <2> QED BY <1>3, <2>1, <2>2, <2>3
<1>8. ASSUME NEW p \in b .. a - 2 PROVE At(line, p + 1) \in Follows[line[p]]
  <2>1. \/ p \in b .. at - 2 \/ p = at - 1 \/ p \in at .. e - 2
        \/ (p = e - 1 /\ a > e) \/ p \in e .. a - 2
    BY <1>2, <1>3, <1>5, <1>7
  <2>2. CASE p = at - 1
    <3>1. p + 1 = at
      BY <2>2
    <3>2. At(line, at) \in Option_or_end
      BY DEF Option, Option_or_end
    <3> QED BY <1>7, <2>2, <3>1, <3>2, EndsFollow
  <2>3. CASE p = e - 1 /\ a > e
    <3>1. p + 1 = e
      BY <1>3, <2>3
    <3>2. line[p] \in Ends
      BY <1>2, <2>3 DEF Ends
    <3> QED BY <1>5, <2>3, <3>1, <3>2, EndsFollow
  <2> QED BY <1>2, <1>5, <1>7, <2>1, <2>2, <2>3
<1>9. a > b /\ a \in b .. Len(line) + 1 /\ a >= at + 2
  BY <1>2, <1>3, <1>5, <1>7
<1>10. line[a - 1] \in Ends /\ (line[a - 1] \in Digits => At(line, a) \notin Digits)
  <2>1. CASE a = e
    BY <1>2, <2>1 DEF Ends
  <2>2. CASE a > e
    BY <1>5, <2>2, EndsFollow
  <2> QED BY <1>3, <1>5, <2>1, <2>2
<1>11. a # b
  BY <1>3, <1>7, <1>9
<1>12. Scanned(line, a)
  BY <1>5, <1>6, <1>8, <1>9, <1>10, <1>11 DEF Scanned
<1> QED BY <1>1, <1>4, <1>9, <1>12

\* In a good line nothing but an option is left after what has been read.
LEMMA GoodLineGoesOn ==
    ASSUME NEW line \in Seq(Char), NEW at \in Nat \ {0}, at <= Len(line),
           Scanned(line, at), WellFormed(line)
    PROVE  Option(line, at)
<1>1. Len(line) \in Nat
  BY LenProperties
<1>2. PICK b : b = NameEnd(line)
  OBVIOUS
<1>3. b \in Nat \ {0} /\ at > b /\ line[at - 1] \in Ends /\ at - 1 \in b .. Len(line)
  <2>1. b \in 1 .. Len(line) + 1
    BY <1>2, NameEndIs
  <2>2. /\ at \in b .. Len(line) + 1
        /\ at = b => at = Len(line) + 1
        /\ at > b => line[at - 1] \in Ends
    BY <1>2 DEF Scanned
  <2>3. at # b /\ at > b
    BY <1>1, <2>1, <2>2
  <2> QED BY <1>1, <2>1, <2>2, <2>3
<1>4. \A p \in b .. Len(line) : At(line, p + 1) \in Follows[line[p]]
  BY <1>2 DEF WellFormed
<1>5. At(line, at) = "/" /\ line[at] = "/"
  <2>1. At(line, at) \in Follows[line[at - 1]]
    <3>1. (at - 1) + 1 = at
      OBVIOUS
    <3> QED BY <1>3, <1>4, <3>1
  <2>2. /\ At(line, at) \notin Blank /\ At(line, at) # "eol" /\ At(line, at) = line[at]
        /\ line[at - 1] \in Digits => At(line, at) \notin Digits
    BY <1>2, <1>3, AtIs DEF Scanned
  <2> QED BY <1>3, <2>1, <2>2, FollowsIs DEF Ends, Option_or_end
<1>6. at \in b .. Len(line) /\ At(line, at + 1) \in Letters
  <2>1. at \in b .. Len(line)
    BY <1>1, <1>3
  <2> QED BY <1>4, <1>5, <2>1, FollowsIs
<1>7. ASSUME At(line, at + 1) \in {"P", "B"} PROVE NumberAt(line, at + 2)
  <2>1. at + 1 \in Nat \ {0} /\ At(line, at + 1) # "eol"
    BY <1>7
  <2>2. at + 1 <= Len(line) /\ line[at + 1] = At(line, at + 1)
    BY <2>1, AtIs
  <2>3. at + 1 \in b .. Len(line) /\ (at + 1) + 1 = at + 2
    BY <1>1, <1>3, <2>2
  <2>4. At(line, at + 2) = "="
    BY <1>4, <1>7, <2>2, <2>3, FollowsIs
  <2>5. at + 2 \in Nat \ {0} /\ At(line, at + 2) # "eol"
    BY <2>4
  <2>6. at + 2 <= Len(line) /\ line[at + 2] = "="
    BY <2>4, <2>5, AtIs
  <2>7. at + 2 \in b .. Len(line) /\ (at + 2) + 1 = at + 3
    BY <1>1, <1>3, <2>6
  <2>8. At(line, (at + 2) + 1) \in Digits
    BY <1>4, <2>6, <2>7, FollowsIs
  <2> QED BY <2>4, <2>8 DEF NumberAt
<1> QED BY <1>5, <1>6, <1>7 DEF Option

LEMMA StepIsSound ==
    ASSUME NEW line \in Seq(Char), NEW n \in Nat, NEW s \in States(line), Sound(line, n, s)
    PROVE  Step(line, s) \in States(line) /\ Sound(line, n + 1, Step(line, s))
<1>1. Len(line) \in Nat /\ s.at \in 1 .. Len(line) + 1
  BY LenProperties DEF States
<1>2. CASE ~s.ok
  BY <1>2 DEF Step, Sound
<1>3. CASE s.ok /\ s.at > Len(line)
  BY <1>3 DEF Step, Sound
<1>4. CASE s.ok /\ ~(s.at > Len(line))
  <2>1. PICK at : at = s.at
    OBVIOUS
  <2>2. at \in Nat \ {0} /\ at <= Len(line) /\ Scanned(line, at) /\ at > n
    BY <1>1, <1>4, <2>1 DEF Sound
  <2>3. PICK r : r = Round(line, s)
    OBVIOUS
  <2>4. /\ r \in States(line)
        /\ r.ok <=> Option(line, at)
        /\ Option(line, at) => r.at = Span(line, OptionEnd(line, at), Blank)
        /\ r.debug => s.debug \/ (Option(line, at) /\ At(line, at + 1) = "D")
    BY <2>1, <2>2, <2>3, RoundIs
  <2>5. ASSUME r.ok PROVE Scanned(line, r.at) /\ r.at > n + 1
    <3>1. Scanned(line, r.at) /\ r.at >= at + 2
      BY <2>2, <2>4, <2>5, OptionScanned
    <3>2. r.at \in Nat
      BY <1>1, <2>4 DEF States
    <3> QED BY <2>2, <3>1, <3>2
  <2>6. WellFormed(line) => r.ok
    BY <2>2, <2>4, GoodLineGoesOn
  <2>7. ASSUME r.debug PROVE AsksDebug(line)
    <3>1. CASE s.debug
      BY <3>1 DEF Sound
    <3>2. CASE Option(line, at) /\ At(line, at + 1) = "D"
      <4>1. at + 1 \in Nat \ {0} /\ At(line, at + 1) # "eol"
        BY <2>2, <3>2
      <4>2. line[at + 1] = "D" /\ at + 1 <= Len(line)
        BY <3>2, <4>1, AtIs
      <4>3. line[at] = "/"
        BY <2>2, <3>2, AtIs DEF Option
      <4>4. at + 1 \in 2 .. Len(line) /\ (at + 1) - 1 = at
        BY <1>1, <2>2, <4>2
      <4> QED BY <4>2, <4>3, <4>4 DEF AsksDebug
    <3> QED BY <2>4, <2>7, <3>1, <3>2
  <2>8. Step(line, s) = r
    BY <1>4, <2>3 DEF Step
  <2> QED BY <2>4, <2>5, <2>6, <2>7, <2>8 DEF Sound
<1> QED BY <1>2, <1>3, <1>4

\* The rounds of parse_options on a line, one value of its variables for each.
Rounds(line) == CHOOSE r :
    r = [n \in 0 .. Len(line) |-> IF n = 0 THEN Start(line) ELSE Step(line, r[n - 1])]

LEMMA ParsedIs ==
    ASSUME NEW line \in Seq(Char)
    PROVE  Parsed(line) = Rounds(line)[Len(line)]
BY DEF Parsed, Rounds, Start, Step

LEMMA StepIsState ==
    ASSUME NEW line \in Seq(Char), NEW s \in States(line)
    PROVE  Step(line, s) \in States(line)
<1>1. Len(line) \in Nat /\ s.at \in 1 .. Len(line) + 1
  BY LenProperties DEF States
<1>2. CASE ~s.ok \/ s.at > Len(line)
  BY <1>2 DEF Step
<1>3. CASE s.ok /\ ~(s.at > Len(line))
  <2>1. s.at <= Len(line)
    BY <1>1, <1>3
  <2> QED BY <1>3, <2>1, RoundIs DEF Step
<1> QED BY <1>2, <1>3

LEMMA RoundsAre ==
    ASSUME NEW line \in Seq(Char)
    PROVE  /\ Rounds(line)[0] = Start(line)
           /\ \A n \in 1 .. Len(line) : Rounds(line)[n] = Step(line, Rounds(line)[n - 1])
<1>1. PICK k \in Nat : k = Len(line)
  BY LenProperties
<1>2. PICK S : S = States(line)
  OBVIOUS
<1>3. Start(line) \in S /\ \A s \in S : Step(line, s) \in S
  BY <1>2, StartIs, StepIsState
<1> DEFINE step == [j \in 1 .. k |-> [s \in S |-> Step(line, s)]]
<1>4. step \in [1 .. k -> [S -> S]]
  BY <1>3
<1>5. PICK f : Loop(f, k, S, Start(line), step)
  <2> HIDE DEF step
  <2> QED BY <1>3, <1>4, LoopExists, Zenon
<1>6. f \in [0 .. k -> S] /\ f[0] = Start(line) /\ \A j \in 1 .. k : f[j] = step[j][f[j - 1]]
  BY <1>5 DEF Loop
<1>7. f = [n \in 0 .. k |-> IF n = 0 THEN Start(line) ELSE Step(line, f[n - 1])]
  <2>1. ASSUME NEW n \in 0 .. k
        PROVE  f[n] = IF n = 0 THEN Start(line) ELSE Step(line, f[n - 1])
    <3>1. CASE n = 0
      BY <1>6, <3>1
    <3>2. CASE n # 0
      <4>1. n \in 1 .. k /\ n - 1 \in 0 .. k
        BY <3>2
      <4> QED BY <1>6, <3>2, <4>1
    <3> QED BY <3>1, <3>2
  <2> QED BY <1>6, <2>1
<1> DEFINE g == Rounds(line)
<1>8. g = [n \in 0 .. k |-> IF n = 0 THEN Start(line) ELSE Step(line, g[n - 1])]
  BY <1>1, <1>7 DEF Rounds
<1>9. g[0] = Start(line) /\ \A n \in 1 .. k : g[n] = Step(line, g[n - 1])
  <2> HIDE DEF g
  <2>1. 0 \in 0 .. k
    OBVIOUS
  <2>2. g[0] = Start(line)
    BY <1>8, <2>1
  <2>3. ASSUME NEW n \in 1 .. k PROVE g[n] = Step(line, g[n - 1])
    <3>1. n \in 0 .. k /\ n # 0
      OBVIOUS
    <3> QED BY <1>8, <3>1
  <2> QED BY <2>2, <2>3
<1> QED BY <1>1, <1>9

\* parse_options accepts the lines that are well formed, and no others; it sets debug
\* only if there is /D in the line.
LEMMA ParsedIsRight ==
    ASSUME NEW line \in Seq(Char)
    PROVE  /\ Parsed(line).ok <=> WellFormed(line)
           /\ Parsed(line).debug => AsksDebug(line)
<1>1. PICK k \in Nat : k = Len(line)
  BY LenProperties
<1>2. PICK g : g = Rounds(line)
  OBVIOUS
<1>3. g[0] = Start(line) /\ \A n \in 1 .. k : g[n] = Step(line, g[n - 1])
  BY <1>1, <1>2, RoundsAre
<1> DEFINE T == { n \in 0 .. k : g[n] \in States(line) /\ Sound(line, n, g[n]) }
<1>4. 0 \in T
  <2>1. Start(line) \in States(line)
    BY StartIs
  <2>2. Start(line).ok = TRUE /\ Start(line).debug = FALSE
        /\ Start(line).at = Span(line, NameEnd(line), Blank)
    BY DEF Start
  <2>3. Start(line).at > 0
    BY <1>1, <2>1 DEF States
  <2>4. Sound(line, 0, Start(line))
    BY <2>2, <2>3, NameIsScanned DEF Sound
  <2> QED BY <1>3, <2>1, <2>4
<1>5. ASSUME NEW n \in 1 .. k, n - 1 \in T PROVE n \in T
  <2>1. n - 1 \in Nat /\ (n - 1) + 1 = n /\ g[n] = Step(line, g[n - 1])
    BY <1>3
  <2>2. g[n - 1] \in States(line) /\ Sound(line, n - 1, g[n - 1])
    BY <1>5
  <2>3. g[n] \in States(line) /\ Sound(line, (n - 1) + 1, g[n])
    BY <2>1, <2>2, StepIsSound
  <2> QED BY <2>1, <2>3
<1>6. k \in T
  <2>1. \A n \in 0 .. k : n \in T
    <3> HIDE DEF T
    <3> QED BY <1>4, <1>5, LoopKeeps
  <2> QED BY <2>1
<1>7. PICK s : s = g[k]
  OBVIOUS
<1>8. s \in States(line) /\ Sound(line, k, s) /\ s = Parsed(line)
  BY <1>1, <1>2, <1>6, <1>7, ParsedIs
<1>9. ASSUME s.ok PROVE WellFormed(line)
  <2>1. PICK at : at = s.at
    OBVIOUS
  <2>2. at \in 1 .. k + 1 /\ at > k /\ Scanned(line, at)
    BY <1>1, <1>8, <1>9, <2>1 DEF Sound, States
  <2>3. at = k + 1
    BY <2>2
  <2>4. PICK b : b = NameEnd(line)
    OBVIOUS
  <2>5. b \in 1 .. k + 1
    BY <1>1, <2>4, NameEndIs
  <2>6. /\ \A p \in b .. at - 2 : At(line, p + 1) \in Follows[line[p]]
        /\ at > b => line[at - 1] \in Ends
    BY <2>2, <2>4 DEF Scanned
  <2>7. ASSUME NEW p \in b .. k PROVE At(line, p + 1) \in Follows[line[p]]
    <3>1. CASE p = k
      <4>1. At(line, p + 1) = "eol"
        <5>1. p + 1 \in Nat \ {0} /\ p + 1 > Len(line)
          BY <1>1, <3>1
        <5> QED BY <5>1, AtIs
      <4>2. line[p] \in Ends
        <5>1. at > b /\ at - 1 = p
          BY <2>3, <2>5, <3>1
        <5> QED BY <2>6, <5>1
      <4> QED BY <4>1, <4>2, EndsFollow DEF Option_or_end
    <3>2. CASE p # k
      <4>1. p \in b .. at - 2
        BY <2>3, <2>5, <3>2
      <4> QED BY <2>6, <4>1
    <3> QED BY <3>1, <3>2
  <2> QED BY <1>1, <2>4, <2>7 DEF WellFormed
<1>10. (WellFormed(line) => s.ok) /\ (s.debug => AsksDebug(line))
  BY <1>8 DEF Sound
<1> QED BY <1>8, <1>9, <1>10

\* The driver is up only after a line that parse_options has accepted, and what it
\* has set of debug is what the line says.
Obeyed == options \in Options /\ (~initNeeded => OptionsGood) /\ (debug => AsksDebug(options))

LEMMA ObeyedAtLoad == Init => Obeyed
BY DEF Init, Obeyed, DebugAtLoad

LEMMA ObeyedNext == Obeyed /\ [Next]_vars => Obeyed'
<1> SUFFICES ASSUME Obeyed, [Next]_vars PROVE Obeyed'
  OBVIOUS
<1>1. options \in Options /\ (DebugAsked => AsksDebug(options))
  <2>1. options \in Options /\ options \in Seq(Char)
    BY OptionsAssumption DEF Obeyed
  <2> QED BY <2>1, ParsedIsRight DEF DebugAsked
<1>2. options' = options
  BY DEF vars, Next, DosInits, DosAsks, Call, DeviceInterrupt, deviceInit, HandshakeFails,
         OptionsFail, ExchangeFails, DriveFound, InitReturns, UnknownCommand, readBlock,
         write_block, buildBpb, IOCTLInput, OtherHandler, PassOn, Returns
<1>3. CASE initNeeded' = initNeeded /\ debug' = debug
  BY <1>2, <1>3 DEF Obeyed, OptionsGood
<1>4. CASE OptionsFail \/ ExchangeFails \/ DriveFound
  <2>1. debug' => debug \/ DebugAsked
    BY <1>4 DEF OptionsFail, ExchangeFails, DriveFound
  <2>2. ~initNeeded' => OptionsGood
    BY <1>4 DEF OptionsFail, ExchangeFails, DriveFound, Obeyed
  <2>3. OptionsGood' = OptionsGood
    BY <1>2 DEF OptionsGood
  <2>4. debug' => AsksDebug(options')
    BY <1>1, <1>2, <2>1 DEF Obeyed
  <2> QED BY <1>1, <1>2, <2>2, <2>3, <2>4 DEF Obeyed
<1> QED
  BY <1>3, <1>4
     DEF vars, driver, Next, DosInits, DosAsks, Call, DeviceInterrupt, deviceInit, HandshakeFails,
         InitReturns, UnknownCommand, readBlock, write_block, buildBpb, IOCTLInput, OtherHandler,
         PassOn, Returns

\* The driver comes up only with a line that is well formed to its last character, it
\* refuses no such line, and it sends log lines only if the line asks for them
\* (parse_options, option_value, deviceInit).
THEOREM GoodLinesOnly == Spec => []OnlyGoodLinesAreTaken
<1>1. Obeyed => OnlyGoodLinesAreTaken
  <2> SUFFICES ASSUME Obeyed PROVE OnlyGoodLinesAreTaken
    OBVIOUS
  <2>1. options \in Seq(Char)
    BY OptionsAssumption DEF Obeyed
  <2>2. OptionsGood <=> WellFormed(options)
    BY <2>1, ParsedIsRight DEF OptionsGood
  <2> QED BY <2>2 DEF Obeyed, OnlyGoodLinesAreTaken, AsksDebug
<1> QED BY <1>1, ObeyedAtLoad, ObeyedNext, PTL DEF Spec
=============================================================================
