-------------------------- MODULE RateLimiterProofs --------------------------
(* What RateLimiter guarantees for every limit, window and block, however  *)
(* far the clocks of the processes are from that of Redis.                 *)
EXTENDS RateLimiter, Functions, FiniteSetTheorems, TLAPS

Entry == [at : Nat, member : Member, outcome : Outcome]

(* A call reads a clock that is at most Lag away from that of Redis.       *)
Call == [score : Reading, nonce : Nonce]

(* The types alone, without the size of the sorted set.                    *)
Types ==
    /\ time \in Nat
    /\ time >= Lag
    /\ members \subseteq Member
    /\ keyExpires \in Nat
    /\ blockedUntil \in Nat
    /\ blockExpires \in Nat
    /\ log \in Seq(Entry)

LEMMA Parameters ==
    /\ MaxRequests \in Nat
    /\ Window \in Nat
    /\ BlockDuration \in Nat /\ BlockDuration > 0
    /\ Lag \in Nat
    /\ MaxTime \in Nat
  BY RateLimiterAssumption

LEMMA CallType ==
    ASSUME Types, NEW e \in Call
    PROVE  /\ e \in Member
           /\ e.score \in Nat
           /\ e.score >= time - Lag
           /\ e.score <= time + Lag
  BY Parameters DEF Types, Call, Reading, Member

LEMMA LogType ==
    ASSUME Types, NEW i \in DOMAIN log
    PROVE  /\ i \in Nat
           /\ i <= Len(log)
           /\ Len(log) \in Nat
           /\ log[i].at \in Nat
           /\ log[i].member \in Member
           /\ log[i].member.score \in Nat
<1>1. /\ DOMAIN log = 1..Len(log)
      /\ Len(log) \in Nat
      /\ log[i] \in Entry
  BY DEF Types
<1>2. log[i].at \in Nat /\ log[i].member \in Member
  BY <1>1 DEF Entry
<1> QED
  BY <1>1, <1>2 DEF Member

(* Record adds one entry and leaves the others.                            *)
LEMMA RecordStep ==
    ASSUME Types, NEW e \in Call, NEW o \in Outcome, Record(e, o)
    PROVE  /\ log' \in Seq(Entry)
           /\ Len(log') = Len(log) + 1
           /\ log'[Len(log) + 1].at = time
           /\ log'[Len(log) + 1].member = e
           /\ log'[Len(log) + 1].outcome = o
           /\ \A i \in DOMAIN log : log'[i] = log[i]
           /\ DOMAIN log' = DOMAIN log \cup {Len(log) + 1}
<1>1. [at |-> time, member |-> e, outcome |-> o] \in Entry
  BY CallType DEF Types, Entry
<1>2. log' = Append(log, [at |-> time, member |-> e, outcome |-> o]) /\ log \in Seq(Entry)
  BY DEF Types, Record
<1>3. /\ log' \in Seq(Entry)
      /\ Len(log') = Len(log) + 1
      /\ log'[Len(log) + 1] = [at |-> time, member |-> e, outcome |-> o]
      /\ \A i \in 1..Len(log) : log'[i] = log[i]
  BY <1>1, <1>2
<1>4. DOMAIN log = 1..Len(log) /\ DOMAIN log' = 1..Len(log') /\ Len(log) \in Nat
  BY <1>2, <1>3
<1> QED
  BY <1>3, <1>4

LEMMA TypesStep == ASSUME Types, [Next]_vars PROVE Types'
<1> USE Parameters DEF Types
<1>1. CASE Tick
  BY <1>1 DEF Tick
<1>2. ASSUME NEW e \in Call, Refuse(e) PROVE Types'
  BY <1>2 DEF Refuse, vars, blockVars
<1>3. ASSUME NEW e \in Call, Block(e) PROVE Types'
  <2>a. Record(e, "blocked")
    BY <1>3 DEF Block
  <2>1. log' \in Seq(Entry)
    BY <2>a, RecordStep DEF Outcome
  <2> QED
    BY <1>3, <2>1, CallType DEF Block, InWindow
<1>4. ASSUME NEW e \in Call, Admit(e) PROVE Types'
  <2>a. Record(e, "admitted")
    BY <1>4 DEF Admit
  <2>1. log' \in Seq(Entry)
    BY <2>a, RecordStep DEF Outcome
  <2> QED
    BY <1>4, <2>1, CallType DEF Admit, InWindow, blockVars
<1>5. CASE UNCHANGED vars
  BY <1>5 DEF vars, blockVars
<1> QED
  BY <1>1, <1>2, <1>3, <1>4, <1>5 DEF Next, Check, Call

LEMMA TypesHold == Spec => []Types
<1>1. Init => Types
  BY Parameters DEF Init, Types
<1>2. Types /\ [Next]_vars => Types'
  BY TypesStep
<1> QED
  BY <1>1, <1>2, PTL DEF Spec

-----------------------------------------------------------------------------
(* The sorted set                                                          *)

SizeInv == IsFiniteSet(members) /\ Cardinality(members) <= MaxRequests

(* Every variable keeps its type, and the sorted set never holds more than *)
(* MaxRequests members.                                                    *)
THEOREM RateLimiterTypeCorrect == Spec => []TypeOK
<1>1. Init => SizeInv
  BY Parameters, FS_EmptySet DEF Init, SizeInv
<1>2. Types /\ SizeInv /\ [Next]_vars => SizeInv'
  <2> SUFFICES ASSUME Types, SizeInv, [Next]_vars PROVE SizeInv'
    OBVIOUS
  <2> USE Parameters DEF SizeInv
  <2>1. CASE Tick
    BY <2>1, FS_EmptySet DEF Tick
  <2>2. ASSUME NEW e \in Call PROVE
               /\ IsFiniteSet(InWindow(e.score))
               /\ Cardinality(InWindow(e.score)) \in Nat
               /\ Cardinality(InWindow(e.score)) <= MaxRequests
    <3>1. InWindow(e.score) \subseteq members
      BY DEF InWindow
    <3>2. IsFiniteSet(InWindow(e.score))
      BY <3>1, FS_Subset
    <3>3. Cardinality(InWindow(e.score)) <= Cardinality(members)
      BY <3>1, FS_Subset
    <3>4. Cardinality(members) \in Nat /\ Cardinality(InWindow(e.score)) \in Nat
      BY <3>2, FS_CardinalityType
    <3> QED
      BY <3>2, <3>3, <3>4
  <2>3. ASSUME NEW e \in Call, Refuse(e) \/ Block(e) PROVE SizeInv'
    BY <2>3, <2>2 DEF Refuse, Block, vars
  <2>4. ASSUME NEW e \in Call, Admit(e) PROVE SizeInv'
    <3>1. Cardinality(InWindow(e.score)) + 1 <= MaxRequests
      BY <2>4, <2>2 DEF Admit, Full
    <3>2. /\ IsFiniteSet(InWindow(e.score) \cup {e})
          /\ \/ Cardinality(InWindow(e.score) \cup {e}) = Cardinality(InWindow(e.score))
             \/ Cardinality(InWindow(e.score) \cup {e}) = Cardinality(InWindow(e.score)) + 1
      BY <2>2, FS_AddElement
    <3>3. members' = InWindow(e.score) \cup {e}
      BY <2>4 DEF Admit
    <3> QED
      BY <2>2, <3>1, <3>2, <3>3
  <2>5. CASE UNCHANGED vars
    BY <2>5 DEF vars
  <2> QED
    BY <2>1, <2>3, <2>4, <2>5 DEF Next, Check, Call
<1>3. Types /\ SizeInv => TypeOK
  BY DEF Types, SizeInv, TypeOK, Entry
<1> QED
  BY <1>1, <1>2, <1>3, TypesHold, PTL DEF Spec

-----------------------------------------------------------------------------
(* Blocks                                                                  *)

(* The block key stands for the last block.                                *)
BlockKeyInv ==
    blockedUntil # 0 =>
        /\ time < blockExpires
        /\ \E i \in Calls("blocked") : blockExpires = log[i].at + BlockDuration

(* A block ends BlockDuration after it began, whatever its client does in  *)
(* the meantime.                                                           *)
THEOREM BlockEndsHolds == Spec => []BlockEnds
<1>1. Init => BlockKeyInv
  BY DEF Init, BlockKeyInv
<1>2. Types /\ BlockKeyInv /\ [Next]_vars => BlockKeyInv'
  <2> SUFFICES ASSUME Types, BlockKeyInv, [Next]_vars PROVE BlockKeyInv'
    OBVIOUS
  <2> USE Parameters DEF BlockKeyInv, Calls
  <2>1. CASE Tick
    BY <2>1 DEF Tick, Types
  <2>2. ASSUME NEW e \in Call, Refuse(e) PROVE BlockKeyInv'
    BY <2>2 DEF Refuse, vars, blockVars
  <2>3. ASSUME NEW e \in Call, Block(e) PROVE BlockKeyInv'
    <3> DEFINE n == Len(log) + 1
    <3>a. Record(e, "blocked")
      BY <2>3 DEF Block
    <3>1. /\ n \in DOMAIN log'
          /\ log'[n].at = time
          /\ log'[n].outcome = "blocked"
      BY <3>a, RecordStep DEF Outcome
    <3> HIDE DEF n
    <3> QED
      BY <2>3, <3>1 DEF Block, Types
  <2>4. ASSUME NEW e \in Call, Admit(e) PROVE BlockKeyInv'
    <3>a. Record(e, "admitted")
      BY <2>4 DEF Admit
    <3>1. \A i \in Calls("blocked") : i \in Calls("blocked")' /\ log'[i] = log[i]
      BY <3>a, RecordStep DEF Outcome
    <3>2. UNCHANGED <<time, blockedUntil, blockExpires>>
      BY <2>4 DEF Admit, blockVars
    <3> QED
      BY <3>1, <3>2
  <2>5. CASE UNCHANGED vars
    BY <2>5 DEF vars, blockVars
  <2> QED
    BY <2>1, <2>2, <2>3, <2>4, <2>5 DEF Next, Check, Call
<1>3. Types /\ BlockKeyInv => BlockEnds
  BY DEF BlockKeyInv, BlockEnds
<1> QED
  BY <1>1, <1>2, <1>3, TypesHold, PTL DEF Spec

(* Each block that is not over is kept up by a block key that outlasts it, *)
(* for every reading that can reach Redis.                                 *)
InForceInv ==
    \A i \in Calls("blocked") :
        /\ log[i].at <= time
        /\ \/ time >= log[i].at + BlockDuration
           \/ /\ blockedUntil >= log[i].at + BlockDuration - Lag
              /\ blockExpires >= log[i].at + BlockDuration

LEMMA BlocksHold == Spec => [](InForceInv /\ BlockObeyed)
<1> DEFINE Inv == InForceInv /\ BlockObeyed
<1>1. Init => Inv
  BY DEF Init, InForceInv, BlockObeyed, Calls
<1>2. Types /\ Inv /\ [Next]_vars => Inv'
  <2> SUFFICES ASSUME Types, Inv, [Next]_vars PROVE Inv'
    OBVIOUS
  <2> USE Parameters DEF InForceInv, BlockObeyed, Calls
  <2>a. \A i \in DOMAIN log : log[i].at \in Nat /\ i \in Nat /\ i <= Len(log)
    BY LogType
  <2>b. /\ {time, blockedUntil, blockExpires} \subseteq Nat
        /\ {time', blockedUntil', blockExpires'} \subseteq Nat
    <3>1. Types'
      BY TypesStep
    <3> QED
      BY <3>1 DEF Types
  <2>1. CASE Tick
    <3>1. /\ time' = time + 1
          /\ blockExpires' = blockExpires
          /\ log' = log
          /\ time' < blockExpires => blockedUntil' = blockedUntil
      BY <2>1 DEF Tick
    <3>2. ASSUME NEW i \in Calls("blocked")
          PROVE  /\ log[i].at <= time'
                 /\ \/ time' >= log[i].at + BlockDuration
                    \/ /\ blockedUntil' >= log[i].at + BlockDuration - Lag
                       /\ blockExpires' >= log[i].at + BlockDuration
      <4>1. i \in DOMAIN log /\ log[i].at \in Nat
        BY <2>a
      <4>2. CASE time >= log[i].at + BlockDuration
        BY <2>b, <3>1, <4>1, <4>2
      <4>3. CASE /\ blockedUntil >= log[i].at + BlockDuration - Lag
                 /\ blockExpires >= log[i].at + BlockDuration
        <5>1. CASE time' < blockExpires
          BY <2>b, <3>1, <4>1, <4>3, <5>1
        <5>2. CASE time' >= blockExpires
          BY <2>b, <3>1, <4>1, <4>3, <5>2
        <5> QED
          BY <2>b, <5>1, <5>2
      <4> QED
        BY <4>2, <4>3
    <3>3. InForceInv'
      BY <3>1, <3>2
    <3>4. BlockObeyed'
      BY <3>1
    <3> QED
      BY <3>3, <3>4
  <2>2. ASSUME NEW e \in Call, Refuse(e) PROVE Inv'
    BY <2>2 DEF Refuse, vars, blockVars
  <2>3. ASSUME NEW e \in Call, Block(e) PROVE Inv'
    <3> DEFINE n == Len(log) + 1
    <3>a. Record(e, "blocked")
      BY <2>3 DEF Block
    <3>1. /\ DOMAIN log' = DOMAIN log \cup {n}
          /\ log'[n].at = time
          /\ log'[n].outcome = "blocked"
          /\ \A i \in DOMAIN log : log'[i] = log[i]
      BY <3>a, RecordStep DEF Outcome
    <3>2. blockedUntil' >= time - Lag + BlockDuration /\ blockExpires' = time + BlockDuration
      <4>1. e.score \in Nat /\ e.score >= time - Lag
        BY CallType
      <4>2. blockedUntil' = e.score + BlockDuration /\ blockExpires' = time + BlockDuration
        BY <2>3 DEF Block
      <4> QED
        BY <2>b, <4>1, <4>2
    <3>3. UNCHANGED time
      BY <2>3 DEF Block
    <3>4. n \in Nat /\ \A i \in DOMAIN log : i < n
      BY <2>a DEF Types
    <3> HIDE DEF n
    <3>5. InForceInv'
      <4>1. ASSUME NEW i \in Calls("blocked")
            PROVE  /\ log'[i].at <= time'
                   /\ blockedUntil' >= log'[i].at + BlockDuration - Lag
                   /\ blockExpires' >= log'[i].at + BlockDuration
        <5>1. log'[i].at = log[i].at /\ log[i].at \in Nat
          BY <2>a, <3>1
        <5>2. log[i].at <= time
          OBVIOUS
        <5> QED
          BY <2>b, <3>2, <3>3, <5>1, <5>2
      <4>2. /\ log'[n].at <= time'
            /\ blockedUntil' >= log'[n].at + BlockDuration - Lag
            /\ blockExpires' >= log'[n].at + BlockDuration
        BY <2>b, <3>1, <3>2, <3>3
      <4> QED
        BY <3>1, <4>1, <4>2
    <3>6. BlockObeyed'
      BY <2>a, <3>1, <3>4
    <3> QED
      BY <3>5, <3>6
  <2>4. ASSUME NEW e \in Call, Admit(e) PROVE Inv'
    <3> DEFINE n == Len(log) + 1
    <3>a. Record(e, "admitted")
      BY <2>4 DEF Admit
    <3>1. /\ DOMAIN log' = DOMAIN log \cup {n}
          /\ log'[n].at = time
          /\ log'[n].outcome = "admitted"
          /\ \A i \in DOMAIN log : log'[i] = log[i]
      BY <3>a, RecordStep DEF Outcome
    <3>2. blockedUntil <= time + Lag
      BY <2>4, CallType DEF Admit, Blocked, Types
    <3>3. UNCHANGED <<time, blockedUntil, blockExpires>>
      BY <2>4 DEF Admit, blockVars
    <3>4. n \in Nat /\ \A i \in DOMAIN log : i < n
      BY <2>a DEF Types
    <3> HIDE DEF n
    <3>5. InForceInv'
      BY <3>1, <3>3
    <3>6. \A i \in Calls("blocked") : time >= log[i].at + BlockDuration - 2 * Lag
      <4> SUFFICES ASSUME NEW i \in Calls("blocked")
                   PROVE  time >= log[i].at + BlockDuration - 2 * Lag
        OBVIOUS
      <4>1. i \in DOMAIN log /\ log[i].at \in Nat
        BY <2>a
      <4>2. CASE blockedUntil >= log[i].at + BlockDuration - Lag
        BY <2>b, <3>2, <4>1, <4>2
      <4>3. CASE time >= log[i].at + BlockDuration
        BY <2>b, <4>1, <4>3
      <4> QED
        BY <4>2, <4>3
    <3>7. BlockObeyed'
      BY <2>a, <3>1, <3>4, <3>6
    <3> QED
      BY <3>5, <3>7
  <2>5. CASE UNCHANGED vars
    BY <2>5 DEF vars, blockVars
  <2> QED
    BY <2>1, <2>2, <2>3, <2>4, <2>5 DEF Next, Check, Call
<1> QED
  BY <1>1, <1>2, TypesHold, PTL DEF Spec

(* No process admits a request during a block.                             *)
THEOREM BlockObeyedHolds == Spec => []BlockObeyed
  BY BlocksHold, PTL

-----------------------------------------------------------------------------
(* Admissions                                                              *)

(* A member is forgotten only when no reading that can still reach Redis   *)
(* is less than a window younger: by cleaning, which follows the fastest   *)
(* clock, or by the expiry of the key, which follows the last admission.   *)
MemberInv ==
    /\ keyExpires <= time + Window
    /\ \A e \in members : e.score <= keyExpires - Window + Lag
    /\ \A k \in Calls("admitted") :
          \/ log[k].member \in members
          \/ log[k].member.score <= time + Lag - Window

LEMMA MemberInvHolds == Spec => []MemberInv
<1>1. Init => MemberInv
  BY Parameters DEF Init, MemberInv, Calls
<1>2. Types /\ MemberInv /\ [Next]_vars => MemberInv'
  <2> SUFFICES ASSUME Types, MemberInv, [Next]_vars PROVE MemberInv'
    OBVIOUS
  <2> USE Parameters DEF MemberInv
  <2>1. /\ {time, keyExpires, time', keyExpires'} \subseteq Nat
        /\ \A e \in members : e.score \in Nat
        /\ \A k \in Calls("admitted") : log[k].member.score \in Nat
    <3>1. Types'
      BY TypesStep
    <3> QED
      BY <3>1, LogType DEF Types, Calls, Member
  <2>2. CASE Tick
    <3>1. /\ time' = time + 1
          /\ keyExpires' = keyExpires
          /\ log' = log
          /\ members' = IF time' < keyExpires THEN members ELSE {}
      BY <2>2 DEF Tick
    <3>a. Calls("admitted")' = Calls("admitted")
      BY <3>1 DEF Calls
    <3>2. CASE members' = members
      BY <2>1, <3>1, <3>a, <3>2
    <3>3. CASE members' = {} /\ time' >= keyExpires
      <4>1. \A e \in members : e.score <= time' + Lag - Window
        BY <2>1, <3>1, <3>3
      <4>2. ASSUME NEW k \in Calls("admitted")
            PROVE  log[k].member.score <= time' + Lag - Window
        BY <2>1, <3>1, <4>1, <4>2
      <4> QED
        BY <2>1, <3>1, <3>a, <3>3, <4>2
    <3> QED
      BY <2>1, <3>1, <3>2, <3>3
  <2>3. ASSUME NEW e \in Call
        PROVE  \A m \in members : m \in InWindow(e.score) \/ m.score <= time + Lag - Window
    <3>1. e.score \in Nat /\ e.score <= time + Lag
      BY CallType
    <3> QED
      BY <2>1, <3>1 DEF InWindow
  <2>4. ASSUME NEW e \in Call, Refuse(e) PROVE MemberInv'
    BY <2>4 DEF Refuse, vars, Calls
  <2>5. ASSUME NEW e \in Call, Block(e) PROVE MemberInv'
    <3>a. Record(e, "blocked")
      BY <2>5 DEF Block
    <3>1. \A k \in Calls("admitted")' : k \in Calls("admitted") /\ log'[k] = log[k]
      BY <3>a, RecordStep DEF Outcome, Calls
    <3>2. members' = InWindow(e.score) /\ UNCHANGED <<time, keyExpires>>
      BY <2>5 DEF Block
    <3>3. InWindow(e.score) \subseteq members
      BY DEF InWindow
    <3> QED
      BY <2>3, <3>1, <3>2, <3>3
  <2>6. ASSUME NEW e \in Call, Admit(e) PROVE MemberInv'
    <3> DEFINE n == Len(log) + 1
    <3>a. Record(e, "admitted")
      BY <2>6 DEF Admit
    <3>b. /\ DOMAIN log' = DOMAIN log \cup {n}
          /\ log'[n].member = e
          /\ \A k \in DOMAIN log : log'[k] = log[k]
      BY <3>a, RecordStep DEF Outcome
    <3> HIDE DEF n
    <3>c. \A k \in Calls("admitted")' : k = n \/ k \in Calls("admitted")
      BY <3>b DEF Calls
    <3>d. \A k \in Calls("admitted") : log'[k] = log[k]
      BY <3>b DEF Calls
    <3>1. /\ \A k \in Calls("admitted")' : k = n \/ (k \in Calls("admitted") /\ log'[k] = log[k])
          /\ log'[n].member = e
      BY <3>b, <3>c, <3>d
    <3>2. members' = InWindow(e.score) \cup {e} /\ time' = time /\ keyExpires' = time + Window
      BY <2>6 DEF Admit
    <3>3. InWindow(e.score) \subseteq members
      BY DEF InWindow
    <3>4. e.score \in Nat /\ e.score <= time + Lag
      BY CallType
    <3>5. \A m \in members' : m.score <= keyExpires' - Window + Lag
      BY <2>1, <3>2, <3>3, <3>4
    <3>6. \A k \in Calls("admitted")' :
             log'[k].member \in members' \/ log'[k].member.score <= time' + Lag - Window
      BY <2>3, <3>1, <3>2
    <3> QED
      BY <2>1, <3>2, <3>5, <3>6
  <2>7. CASE UNCHANGED vars
    BY <2>7 DEF vars, Calls
  <2> QED
    BY <2>2, <2>4, <2>5, <2>6, <2>7 DEF Next, Check, Call
<1> QED
  BY <1>1, <1>2, TypesHold, PTL DEF Spec

InStretch(m, s) == m.score >= s /\ m.score < s + Window - 2 * Lag

(* The members that are admitted in the stretch that begins at s.          *)
Stretch(s) == {log[j].member : j \in {k \in Calls("admitted") : InStretch(log[k].member, s)}}

LEMMA StretchMembers ==
    ASSUME NEW s, NEW m
    PROVE  m \in Stretch(s) <=>
             \E k \in Calls("admitted") : m = log[k].member /\ InStretch(m, s)
  BY DEF Stretch

(* WindowBound with the beginning of the stretch as a variable.            *)
StretchInv ==
    \A i \in Calls("admitted"), s \in Nat :
        s = log[i].member.score => Cardinality(Stretch(s)) <= MaxRequests

(* The step on which the limit rests: a request that is admitted into a    *)
(* stretch finds all earlier members of the stretch in the sorted set.     *)
LEMMA AdmitKeepsStretch ==
    ASSUME TypeOK, Types, MemberInv, TypeOK', StretchInv, NEW e \in Call, Admit(e)
    PROVE  StretchInv'
<1> DEFINE n == Len(log) + 1
<1>1. Record(e, "admitted")
  BY DEF Admit
<1>2. /\ DOMAIN log' = DOMAIN log \cup {n}
      /\ log'[n].member = e
      /\ log'[n].outcome = "admitted"
      /\ \A k \in DOMAIN log : log'[k] = log[k]
  BY <1>1, RecordStep DEF Outcome
<1> HIDE DEF n
<1>3. \A k : k \in Calls("admitted")' <=> k = n \/ k \in Calls("admitted")
  BY <1>2 DEF Calls
<1>4. \A k \in Calls("admitted") : log'[k].member = log[k].member
  BY <1>2 DEF Calls
<1>5. /\ e.score \in Nat /\ e.score <= time + Lag /\ e.score >= time - Lag
      /\ time \in Nat
      /\ \A k \in Calls("admitted") : log[k].member.score \in Nat
  BY CallType, LogType DEF Types, Calls
<1>6. members' = InWindow(e.score) \cup {e}
  BY DEF Admit
<1>7. ASSUME NEW s, NEW m
      PROVE  m \in Stretch(s)' <=> m \in Stretch(s) \/ (m = e /\ InStretch(e, s))
  <2>1. m \in Stretch(s)' <=>
          \E k \in Calls("admitted")' : m = log'[k].member /\ InStretch(m, s)
    BY DEF Stretch, InStretch
  <2>2. ASSUME NEW k \in Calls("admitted")', m = log'[k].member, InStretch(m, s)
        PROVE  m \in Stretch(s) \/ (m = e /\ InStretch(e, s))
    <3>1. CASE k = n
      BY <1>2, <2>2, <3>1
    <3>2. CASE k \in Calls("admitted")
      BY <1>4, <2>2, <3>2, StretchMembers
    <3> QED
      BY <1>3, <3>1, <3>2
  <2>3. ASSUME m \in Stretch(s) PROVE m \in Stretch(s)'
    <3>1. PICK k \in Calls("admitted") : m = log[k].member /\ InStretch(m, s)
      BY <2>3, StretchMembers
    <3>2. k \in Calls("admitted")' /\ m = log'[k].member
      BY <1>3, <1>4, <3>1
    <3> QED
      BY <2>1, <3>1, <3>2
  <2>4. ASSUME m = e, InStretch(e, s) PROVE m \in Stretch(s)'
    <3>1. n \in Calls("admitted")'
      BY <1>3
    <3> QED
      BY <1>2, <2>1, <2>4, <3>1
  <2> QED
    BY <2>1, <2>2, <2>3, <2>4
<1> SUFFICES ASSUME NEW i \in Calls("admitted")', NEW s \in Nat, s = log'[i].member.score
             PROVE  Cardinality(Stretch(s)') <= MaxRequests
  BY DEF StretchInv
<1>8. CASE InStretch(e, s)
  <2>1. e.score < s + Window - 2 * Lag
    BY <1>8 DEF InStretch
  <2>2. ASSUME NEW k \in Calls("admitted"), log[k].member.score >= s
        PROVE  log[k].member \in members'
    <3>1. log[k].member.score > time + Lag - Window
      BY <1>5, <2>1, <2>2, Parameters
    <3>2. log[k].member \in members
      BY <1>5, <3>1, Parameters DEF MemberInv
    <3>3. log[k].member.score > e.score - Window
      BY <1>5, <2>1, <2>2, Parameters
    <3> QED
      BY <1>6, <3>2, <3>3 DEF InWindow
  <2>3. Stretch(s)' \subseteq members'
    <3> SUFFICES ASSUME NEW m \in Stretch(s)' PROVE m \in members'
      OBVIOUS
    <3>1. CASE m = e
      BY <1>6, <3>1
    <3>2. CASE m \in Stretch(s)
      BY <2>2, <3>2, StretchMembers DEF InStretch
    <3> QED
      BY <1>7, <3>1, <3>2
  <2>4. IsFiniteSet(members') /\ Cardinality(members') <= MaxRequests
    BY DEF TypeOK
  <2>5. IsFiniteSet(Stretch(s)') /\ Cardinality(Stretch(s)') <= Cardinality(members')
    BY <2>3, <2>4, FS_Subset
  <2>6. Cardinality(Stretch(s)') \in Nat /\ Cardinality(members') \in Nat
    BY <2>4, <2>5, FS_CardinalityType
  <2> QED
    BY <2>4, <2>5, <2>6, Parameters
<1>9. CASE ~InStretch(e, s) /\ i # n
  <2>a. ASSUME NEW m PROVE m \in Stretch(s)' <=> m \in Stretch(s)
    BY <1>7, <1>9
  <2>1. Stretch(s)' = Stretch(s)
    BY <2>a
  <2>2. i \in Calls("admitted") /\ s = log[i].member.score
    BY <1>3, <1>4, <1>9
  <2> QED
    BY <2>1, <2>2 DEF StretchInv
<1>10. CASE ~InStretch(e, s) /\ i = n
  <2>1. s = e.score
    BY <1>2, <1>10
  <2>2. Window - 2 * Lag <= 0
    BY <1>5, <1>10, <2>1, Parameters DEF InStretch
  <2>3. \A k \in Calls("admitted") : ~InStretch(log[k].member, s)
    BY <1>5, <2>2, Parameters DEF InStretch
  <2>4. Stretch(s)' = {}
    BY <1>7, <1>10, <2>3, StretchMembers
  <2> QED
    BY <2>4, FS_EmptySet, Parameters
<1> QED
  BY <1>8, <1>9, <1>10

(* No stretch of the length Window - 2 * Lag sees more than MaxRequests    *)
(* admissions.                                                             *)
THEOREM WindowBoundHolds == Spec => []WindowBound
<1>1. Init => StretchInv
  BY DEF Init, StretchInv, Calls
<1>2. TypeOK /\ Types /\ MemberInv /\ TypeOK' /\ StretchInv /\ [Next]_vars => StretchInv'
  <2> SUFFICES ASSUME TypeOK, Types, MemberInv, TypeOK', StretchInv, [Next]_vars
               PROVE  StretchInv'
    OBVIOUS
  <2>1. ASSUME Calls("admitted")' = Calls("admitted"),
               \A k \in Calls("admitted") : log'[k] = log[k]
        PROVE  StretchInv'
    <3>1. ASSUME NEW s, NEW m
          PROVE  m \in Stretch(s)' <=> m \in Stretch(s)
      <4>1. m \in Stretch(s)' <=>
              \E k \in Calls("admitted")' : m = log'[k].member /\ InStretch(m, s)
        BY DEF Stretch, InStretch
      <4> QED
        BY <2>1, <4>1, StretchMembers
    <3>2. ASSUME NEW s PROVE Stretch(s)' = Stretch(s)
      BY <3>1
    <3> QED
      BY <2>1, <3>2 DEF StretchInv
  <2>2. CASE UNCHANGED log
    BY <2>1, <2>2 DEF Calls
  <2>3. ASSUME NEW e \in Call, Block(e) PROVE StretchInv'
    <3>1. Record(e, "blocked")
      BY <2>3 DEF Block
    <3>2. /\ Calls("admitted")' = Calls("admitted")
          /\ \A k \in Calls("admitted") : log'[k] = log[k]
      BY <3>1, RecordStep DEF Outcome, Calls
    <3> QED
      BY <2>1, <3>2
  <2>4. ASSUME NEW e \in Call, Admit(e) PROVE StretchInv'
    BY <2>4, AdmitKeepsStretch
  <2>5. CASE Tick
    BY <2>2, <2>5 DEF Tick
  <2>6. ASSUME NEW e \in Call, Refuse(e) PROVE UNCHANGED log
    BY <2>6 DEF Refuse, vars
  <2>7. CASE UNCHANGED vars
    BY <2>2, <2>7 DEF vars
  <2> QED
    BY <2>2, <2>3, <2>4, <2>5, <2>6, <2>7 DEF Next, Check, Call
<1>3. Types /\ StretchInv => WindowBound
  <2> SUFFICES ASSUME Types, StretchInv, NEW i \in Calls("admitted")
               PROVE  Cardinality(Stretch(log[i].member.score)) <= MaxRequests
    BY DEF WindowBound, Stretch, InStretch
  <2>1. log[i].member.score \in Nat
    BY LogType DEF Calls
  <2> QED
    BY <2>1 DEF StretchInv
<1> QED
  BY <1>1, <1>2, <1>3, TypesHold, MemberInvHolds, RateLimiterTypeCorrect, PTL DEF Spec

-----------------------------------------------------------------------------
(* Who is blocked                                                          *)

(* Whatever is in the sorted set was put there by an admission.            *)
SourceInv == \A e \in members : \E k \in Calls("admitted") : log[k].member = e

LEMMA SourceStep ==
    ASSUME Types, SourceInv, [Next]_vars
    PROVE  SourceInv'
<1>1. ASSUME members' \subseteq members, UNCHANGED log PROVE SourceInv'
  BY <1>1 DEF SourceInv, Calls
<1>2. CASE Tick
  BY <1>1, <1>2 DEF Tick
<1>3. ASSUME NEW e \in Call, Refuse(e) PROVE SourceInv'
  BY <1>1, <1>3 DEF Refuse, vars
<1>4. ASSUME NEW e \in Call, Block(e) PROVE SourceInv'
  <2>1. Record(e, "blocked") /\ members' \subseteq members
    BY <1>4 DEF Block, InWindow
  <2>2. \A k \in Calls("admitted") : k \in Calls("admitted")' /\ log'[k] = log[k]
    BY <2>1, RecordStep DEF Outcome, Calls
  <2> QED
    BY <2>1, <2>2 DEF SourceInv
<1>5. ASSUME NEW e \in Call, Admit(e) PROVE SourceInv'
  <2>1. Record(e, "admitted") /\ members' \subseteq members \cup {e}
    BY <1>5 DEF Admit, InWindow
  <2>2. \A k \in Calls("admitted") : k \in Calls("admitted")' /\ log'[k] = log[k]
    BY <2>1, RecordStep DEF Outcome, Calls
  <2>3. Len(log) + 1 \in Calls("admitted")' /\ log'[Len(log) + 1].member = e
    BY <2>1, RecordStep DEF Outcome, Calls
  <2> QED
    BY <2>1, <2>2, <2>3 DEF SourceInv
<1>6. CASE UNCHANGED vars
  BY <1>1, <1>6 DEF vars
<1> QED
  BY <1>2, <1>3, <1>4, <1>5, <1>6 DEF Next, Check, Call

(* The admissions before i that are in the window of score s.              *)
Recent(i, s) == {k \in Calls("admitted") : k < i /\ log[k].member.score > s - Window}

LEMMA RecentType ==
    ASSUME Types, NEW i, NEW s
    PROVE  IsFiniteSet(Recent(i, s)) /\ Cardinality(Recent(i, s)) \in Nat
<1>1. DOMAIN log = 1..Len(log) /\ Len(log) \in Nat
  BY DEF Types
<1>2. Recent(i, s) \subseteq 1..Len(log)
  BY <1>1 DEF Recent, Calls
<1>3. IsFiniteSet(1..Len(log))
  BY <1>1, FS_Interval
<1> QED
  BY <1>2, <1>3, FS_Subset, FS_CardinalityType

(* When a block begins its window is full, and each of its members stands  *)
(* for an admission.                                                       *)
LEMMA BlockFindsRecent ==
    ASSUME TypeOK, Types, SourceInv, NEW e \in Call, Full(e.score)
    PROVE  Cardinality(Recent(Len(log) + 1, e.score)) >= MaxRequests
<1> DEFINE K == Recent(Len(log) + 1, e.score)
           W == InWindow(e.score)
           T == {log[k].member : k \in K}
           f == [k \in K |-> log[k].member]
<1>1. IsFiniteSet(K) /\ Cardinality(K) \in Nat
  BY RecentType
<1>2. f \in Surjection(K, T)
  BY DEF Surjection
<1>3. IsFiniteSet(T) /\ Cardinality(T) <= Cardinality(K)
  BY <1>1, <1>2, FS_Surjection
<1>4. W \subseteq T
  <2> SUFFICES ASSUME NEW m \in W PROVE m \in T
    OBVIOUS
  <2>1. m \in members /\ m.score > e.score - Window
    BY DEF InWindow
  <2>2. PICK k \in Calls("admitted") : log[k].member = m
    BY <2>1 DEF SourceInv
  <2>3. k \in Nat /\ k <= Len(log) /\ Len(log) \in Nat
    BY LogType DEF Calls
  <2>4. k \in K
    BY <2>1, <2>2, <2>3 DEF Recent
  <2> QED
    BY <2>2, <2>4
<1>5. IsFiniteSet(W) /\ Cardinality(W) <= Cardinality(T)
  BY <1>3, <1>4, FS_Subset
<1>6. Cardinality(W) >= MaxRequests
  BY DEF Full
<1>7. Cardinality(W) \in Nat /\ Cardinality(T) \in Nat
  BY <1>3, <1>5, FS_CardinalityType
<1> QED
  BY <1>1, <1>3, <1>5, <1>6, <1>7, Parameters

(* Nobody is blocked who keeps to the limit: MaxRequests admissions are    *)
(* younger than the window when a block begins.                            *)
THEOREM BlockIsJustifiedHolds == Spec => []BlockIsJustified
<1>1. Init => SourceInv /\ BlockIsJustified
  BY DEF Init, SourceInv, BlockIsJustified, Calls
<1>2. Types /\ SourceInv /\ [Next]_vars => SourceInv'
  BY SourceStep
<1>3. TypeOK /\ Types /\ SourceInv /\ BlockIsJustified /\ [Next]_vars => BlockIsJustified'
  <2> SUFFICES ASSUME TypeOK, Types, SourceInv, BlockIsJustified, [Next]_vars
               PROVE  BlockIsJustified'
    OBVIOUS
  <2>1. ASSUME UNCHANGED log PROVE BlockIsJustified'
    BY <2>1 DEF BlockIsJustified, Calls
  <2>2. ASSUME NEW e \in Call, NEW o \in Outcome, Record(e, o),
               o = "blocked" => Full(e.score)
        PROVE  BlockIsJustified'
    <3> SUFFICES ASSUME NEW i \in Calls("blocked")'
                 PROVE  Cardinality(Recent(i, log[i].member.score)') >= MaxRequests
      BY DEF BlockIsJustified, Recent
    <3>1. Len(log) \in Nat /\ DOMAIN log = 1..Len(log)
      BY DEF Types
    <3>2. \A k \in Calls("admitted")' : k < Len(log) + 1 => k \in Calls("admitted")
      BY <2>2, <3>1, RecordStep DEF Calls
    <3>3. \A k \in Calls("admitted") : k \in Calls("admitted")' /\ log'[k] = log[k]
      BY <2>2, <3>1, RecordStep DEF Calls
    <3>4. i \in 1..Len(log) + 1
      BY <2>2, <3>1, RecordStep DEF Calls
    <3>5. ASSUME NEW s PROVE Recent(i, s)' = Recent(i, s)
      <4>1. ASSUME NEW k PROVE k \in Recent(i, s)' <=> k \in Recent(i, s)
        <5>1. k \in Calls("admitted")' => k \in 1..Len(log) + 1
          BY <2>2, <3>1, RecordStep DEF Calls
        <5>2. k \in Calls("admitted")' /\ k < i => k \in Calls("admitted")
          BY <3>1, <3>2, <3>4, <5>1
        <5> QED
          BY <3>3, <5>2 DEF Recent
      <4> QED
        BY <4>1
    <3>6. CASE i = Len(log) + 1
      <4>1. log'[i].member = e /\ o = "blocked"
        BY <2>2, <3>6, RecordStep DEF Calls
      <4> QED
        BY <2>2, <3>5, <3>6, <4>1, BlockFindsRecent
    <3>7. CASE i \in 1..Len(log)
      <4>1. i \in Calls("blocked") /\ log'[i] = log[i]
        BY <2>2, <3>1, <3>7, RecordStep DEF Calls
      <4> QED
        BY <3>5, <4>1 DEF BlockIsJustified, Recent
    <3> QED
      BY <3>1, <3>4, <3>6, <3>7
  <2>3. ASSUME NEW e \in Call, Block(e) PROVE BlockIsJustified'
    BY <2>2, <2>3 DEF Block, Outcome
  <2>4. ASSUME NEW e \in Call, Admit(e) PROVE BlockIsJustified'
    BY <2>2, <2>4 DEF Admit, Outcome
  <2>5. CASE Tick
    BY <2>1, <2>5 DEF Tick
  <2>6. ASSUME NEW e \in Call, Refuse(e) PROVE BlockIsJustified'
    BY <2>1, <2>6 DEF Refuse, vars
  <2>7. CASE UNCHANGED vars
    BY <2>1, <2>7 DEF vars
  <2> QED
    BY <2>3, <2>4, <2>5, <2>6, <2>7 DEF Next, Check, Call
<1> QED
  BY <1>1, <1>2, <1>3, TypesHold, RateLimiterTypeCorrect, PTL DEF Spec

-----------------------------------------------------------------------------
(* What a block costs                                                      *)

(* The blocks so far are paid for by admissions that are too old to be in  *)
(* the window of a request to come.                                        *)
Paid(S) ==
    /\ S \subseteq Calls("admitted")
    /\ IsFiniteSet(Calls("blocked"))
    /\ IsFiniteSet(S)
    /\ MaxRequests * Cardinality(Calls("blocked")) <= Cardinality(S)
    /\ \A k \in S : \E i \in Calls("blocked") : log[k].member.score <= log[i].at + Lag

EarnedInv == BlockDuration >= Window + 2 * Lag => \E S : Paid(S)

LEMMA OneMore ==
    ASSUME NEW b \in Nat, NEW p \in Nat, NEW r \in Nat, MaxRequests * b <= p, r >= MaxRequests
    PROVE  MaxRequests * (b + 1) <= p + r
  BY Parameters

(* A request that is not refused is a whole block, less the error of its   *)
(* clock, younger than every block that has begun.                         *)
LEMMA UnblockedIsLate ==
    ASSUME Types, InForceInv, NEW e \in Call, ~Blocked(e.score), NEW i \in Calls("blocked")
    PROVE  e.score >= log[i].at + BlockDuration - Lag
<1>1. e.score \in Nat /\ e.score >= time - Lag
  BY CallType
<1>2. log[i].at \in Nat /\ {time, blockedUntil, blockExpires} \subseteq Nat
  BY LogType DEF Types, Calls
<1>3. CASE time >= log[i].at + BlockDuration
  BY <1>1, <1>2, <1>3, Parameters
<1>4. CASE blockedUntil >= log[i].at + BlockDuration - Lag
  BY <1>1, <1>2, <1>4, Parameters DEF Blocked
<1> QED
  BY <1>3, <1>4 DEF InForceInv

(* The block that begins is paid for by the members of its window, none of *)
(* which has paid for another.                                             *)
LEMMA BlockIsPaid ==
    ASSUME TypeOK, Types, InForceInv, MemberInv, SourceInv,
           BlockDuration >= Window + 2 * Lag,
           NEW S, Paid(S), NEW e \in Call, Block(e)
    PROVE  \E T : Paid(T)'
<1> DEFINE n == Len(log) + 1
           K == Recent(n, e.score)
<1>1. Record(e, "blocked") /\ ~Blocked(e.score) /\ Full(e.score)
  BY DEF Block
<1>2. /\ DOMAIN log' = DOMAIN log \cup {n}
      /\ log'[n].at = time
      /\ log'[n].outcome = "blocked"
      /\ \A k \in DOMAIN log : log'[k] = log[k]
  BY <1>1, RecordStep DEF Outcome
<1>3. n \in Nat /\ n \notin DOMAIN log
  BY DEF Types
<1>4. IsFiniteSet(K) /\ Cardinality(K) \in Nat /\ Cardinality(K) >= MaxRequests
  BY <1>1, RecentType, BlockFindsRecent
<1> HIDE DEF n
<1>5. /\ Calls("admitted")' = Calls("admitted")
      /\ Calls("blocked")' = Calls("blocked") \cup {n}
  BY <1>2, <1>3 DEF Calls
<1>6. /\ IsFiniteSet(Calls("blocked")')
      /\ Cardinality(Calls("blocked")) \in Nat
      /\ Cardinality(Calls("blocked")') = Cardinality(Calls("blocked")) + 1
  <2>1. IsFiniteSet(Calls("blocked")) /\ n \notin Calls("blocked")
    BY <1>3 DEF Paid, Calls
  <2>2. Cardinality(Calls("blocked")) \in Nat
    BY <2>1, FS_CardinalityType
  <2>3. /\ IsFiniteSet(Calls("blocked") \cup {n})
        /\ Cardinality(Calls("blocked") \cup {n}) = Cardinality(Calls("blocked")) + 1
    BY <2>1, FS_AddElement
  <2> QED
    BY <1>5, <2>2, <2>3
<1>7. S \cap K = {}
  <2> SUFFICES ASSUME NEW k \in S, k \in K PROVE FALSE
    OBVIOUS
  <2>1. PICK i \in Calls("blocked") : log[k].member.score <= log[i].at + Lag
    BY DEF Paid
  <2>2. log[i].at \in Nat /\ log[k].member.score \in Nat /\ e.score \in Nat
    BY LogType, CallType DEF Recent, Calls
  <2>3. log[k].member.score > e.score - Window
    BY DEF Recent
  <2>4. e.score >= log[i].at + BlockDuration - Lag
    BY <1>1, UnblockedIsLate
  <2> QED
    BY <2>1, <2>2, <2>3, <2>4, Parameters
<1>8. /\ IsFiniteSet(S \cup K)
      /\ Cardinality(S) \in Nat
      /\ Cardinality(S \cup K) = Cardinality(S) + Cardinality(K)
  <2>1. Cardinality(S \cap K) = 0
    BY <1>7, FS_EmptySet
  <2>2. IsFiniteSet(S) /\ Cardinality(S) \in Nat
    BY FS_CardinalityType DEF Paid
  <2> HIDE DEF K
  <2>3. IsFiniteSet(K) /\ Cardinality(K) \in Nat
    BY <1>4
  <2>4. /\ IsFiniteSet(S \cup K)
        /\ Cardinality(S \cup K) = Cardinality(S) + Cardinality(K) - Cardinality(S \cap K)
    BY <2>2, <2>3, FS_Union
  <2> QED
    BY <2>1, <2>2, <2>3, <2>4
<1>9. MaxRequests * Cardinality(Calls("blocked")') <= Cardinality(S \cup K)
  <2>1. MaxRequests * Cardinality(Calls("blocked")) <= Cardinality(S)
    BY DEF Paid
  <2> QED
    BY <1>4, <1>6, <1>8, <2>1, OneMore
<1>10. \A k \in S \cup K : \E i \in Calls("blocked")' : log'[k].member.score <= log'[i].at + Lag
  <2> SUFFICES ASSUME NEW k \in S \cup K PROVE log'[k].member.score <= log'[n].at + Lag
    BY <1>5
  <2>1. k \in Calls("admitted")
    BY DEF Paid, Recent
  <2>2. log[k].member.score \in Nat /\ {time, keyExpires} \subseteq Nat
    BY <2>1, LogType DEF Types, Calls
  <2>3. log[k].member.score <= time + Lag
    BY <2>1, <2>2, Parameters DEF MemberInv
  <2> QED
    BY <1>2, <2>1, <2>3 DEF Calls
<1>11. S \cup K \subseteq Calls("admitted")'
  BY <1>5 DEF Paid, Recent
<1> QED
  BY <1>6, <1>8, <1>9, <1>10, <1>11 DEF Paid

(* If blocks last as long as the window and what clocks may disagree by,   *)
(* each block is paid for by MaxRequests admissions of its own.            *)
THEOREM EveryBlockIsEarnedHolds == Spec => []EveryBlockIsEarned
<1>1. Init => EarnedInv
  <2> SUFFICES ASSUME Init PROVE Paid({})
    BY DEF EarnedInv
  <2>1. Calls("blocked") = {}
    BY DEF Init, Calls
  <2> QED
    BY <2>1, FS_EmptySet, Parameters DEF Paid
<1>2. TypeOK /\ Types /\ InForceInv /\ MemberInv /\ SourceInv /\ EarnedInv /\ [Next]_vars
        => EarnedInv'
  <2> SUFFICES ASSUME TypeOK, Types, InForceInv, MemberInv, SourceInv, EarnedInv, [Next]_vars,
                      BlockDuration >= Window + 2 * Lag
               PROVE  \E S : Paid(S)'
    BY DEF EarnedInv
  <2>1. PICK S : Paid(S)
    BY DEF EarnedInv
  <2>2. ASSUME Calls("blocked")' = Calls("blocked"),
               Calls("admitted") \subseteq Calls("admitted")',
               \A k \in DOMAIN log : log'[k] = log[k]
        PROVE  Paid(S)'
    <3>1. S \subseteq DOMAIN log /\ Calls("blocked") \subseteq DOMAIN log
      BY <2>1 DEF Paid, Calls
    <3> QED
      BY <2>1, <2>2, <3>1 DEF Paid
  <2>3. ASSUME UNCHANGED log PROVE Paid(S)'
    BY <2>2, <2>3 DEF Calls
  <2>4. ASSUME NEW e \in Call, Block(e) PROVE \E T : Paid(T)'
    BY <2>1, <2>4, BlockIsPaid
  <2>5. ASSUME NEW e \in Call, Admit(e) PROVE Paid(S)'
    <3>1. Record(e, "admitted")
      BY <2>5 DEF Admit
    <3>2. /\ log'[Len(log) + 1].outcome = "admitted"
          /\ \A k \in DOMAIN log : log'[k] = log[k]
          /\ DOMAIN log' = DOMAIN log \cup {Len(log) + 1}
      BY <3>1, RecordStep DEF Outcome
    <3> QED
      BY <2>2, <3>2 DEF Calls
  <2>6. CASE Tick
    BY <2>3, <2>6 DEF Tick
  <2>7. ASSUME NEW e \in Call, Refuse(e) PROVE Paid(S)'
    BY <2>3, <2>7 DEF Refuse, vars
  <2>8. CASE UNCHANGED vars
    BY <2>3, <2>8 DEF vars
  <2> QED
    BY <2>4, <2>5, <2>6, <2>7, <2>8 DEF Next, Check, Call
<1>3. Types /\ EarnedInv => EveryBlockIsEarned
  <2> SUFFICES ASSUME Types, NEW S, Paid(S)
               PROVE  MaxRequests * Cardinality(Calls("blocked")) <= Cardinality(Calls("admitted"))
    BY DEF EarnedInv, EveryBlockIsEarned
  <2>1. IsFiniteSet(Calls("admitted"))
    <3>1. DOMAIN log = 1..Len(log) /\ Len(log) \in Nat
      BY DEF Types
    <3>2. IsFiniteSet(1..Len(log)) /\ Calls("admitted") \subseteq 1..Len(log)
      BY <3>1, FS_Interval DEF Calls
    <3> QED
      BY <3>2, FS_Subset
  <2>2. Cardinality(S) <= Cardinality(Calls("admitted"))
    BY <2>1, FS_Subset DEF Paid
  <2>3. /\ Cardinality(Calls("admitted")) \in Nat
        /\ Cardinality(Calls("blocked")) \in Nat
        /\ Cardinality(S) \in Nat
    BY <2>1, FS_CardinalityType DEF Paid
  <2> QED
    BY <2>2, <2>3, Parameters DEF Paid
<1>4. Spec => []SourceInv
  <2>1. Init => SourceInv
    BY DEF Init, SourceInv
  <2> QED
    BY <2>1, SourceStep, TypesHold, PTL DEF Spec
<1> QED
  BY <1>1, <1>2, <1>3, <1>4, TypesHold, BlocksHold, MemberInvHolds, RateLimiterTypeCorrect, PTL
     DEF Spec

=============================================================================
