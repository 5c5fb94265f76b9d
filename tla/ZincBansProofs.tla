-------------------------- MODULE ZincBansProofs --------------------------
(***************************************************************************)
(* Proofs about ZincBans for every set of players, files, durations and    *)
(* moderators' keys, every number of threads and every length of the list. *)
(***************************************************************************)
EXTENDS ZincBans, FiniteSetTheorems, TLAPS

-----------------------------------------------------------------------------
(* What the helpers return.                                                *)

\* A listing of positions of a list is an injection into it that reaches each
\* of them, and is no longer than the list.
LEMMA ListingType ==
  ASSUME NEW n \in Nat, NEW K \in SUBSET (1..n), NEW f \in Listings(K)
  PROVE  /\ Cardinality(K) \in 0..n
         /\ f \in [1..Cardinality(K) -> K]
         /\ Range(f) = K
<1>1. IsFiniteSet(1..n) /\ Cardinality(1..n) = n
  BY FS_Interval
<1>2. Cardinality(K) \in 0..n
  <2>1. IsFiniteSet(K) /\ Cardinality(K) <= n
    BY <1>1, FS_Subset
  <2>2. Cardinality(K) \in Nat
    BY <2>1, FS_CardinalityType
  <2> QED BY <2>1, <2>2
<1>3. f \in [1..Cardinality(K) -> K] /\ \A k \in K : \E i \in 1..Cardinality(K) : f[i] = k
  BY DEF Listings, Bijection, Injection, Surjection
<1> QED BY <1>2, <1>3 DEF Range

\* No address is an address value.
LEMMA NoIpType == NoIp \in Ip
  BY DEF NoIp, Ip

\* remove_if keeps the length of the list, and the bans that stay are on it.
LEMMA RemovedType ==
  ASSUME NEW bans \in Seq(Ban), NEW K \in SUBSET (DOMAIN bans), NEW f \in Listings(K)
  PROVE  /\ Removed(bans, f) \in Seq(Ban)
         /\ \A i \in K : bans[i] \in Range(Removed(bans, f))
         /\ \A r \in DOMAIN Removed(bans, f) :
              \E i \in DOMAIN bans : Removed(bans, f)[r] \in {bans[i], MovedFrom(bans[i])}
<1> DEFINE n == Len(bans)
<1>1. n \in Nat /\ DOMAIN bans = 1..n /\ \A i \in 1..n : bans[i] \in Ban
  OBVIOUS
<1>2. /\ Cardinality(K) \in 0..n
      /\ f \in [1..Cardinality(K) -> K] /\ Range(f) = K
  BY <1>1, ListingType
<1>3. DOMAIN f = 1..Cardinality(K) /\ DOMAIN f \subseteq 1..n
  BY <1>1, <1>2
<1>4. \A i \in 1..n : MovedFrom(bans[i]) \in Ban
  BY <1>1, NoIpType DEF MovedFrom, Ban
<1>5. \A r \in 1..n : /\ Removed(bans, f)[r] \in Ban
                      /\ \E i \in 1..n : Removed(bans, f)[r] \in {bans[i], MovedFrom(bans[i])}
  BY <1>1, <1>2, <1>3, <1>4 DEF Removed
<1>6. DOMAIN Removed(bans, f) = 1..n
  BY <1>1 DEF Removed
<1>7. Removed(bans, f) = [r \in 1..n |-> Removed(bans, f)[r]]
  BY <1>1 DEF Removed
<1>8. Removed(bans, f) \in Seq(Ban)
  BY <1>1, <1>5, <1>7
<1>9. ASSUME NEW i \in K PROVE bans[i] \in Range(Removed(bans, f))
  <2>1. PICK r \in DOMAIN f : f[r] = i
    BY <1>2 DEF Range
  <2>2. r \in 1..n /\ Removed(bans, f)[r] = bans[i]
    BY <1>1, <1>3, <2>1 DEF Removed
  <2> QED BY <1>6, <2>2 DEF Range
<1> QED BY <1>1, <1>5, <1>6, <1>8, <1>9

\* Every ban loadBanList can read from a file is a ban.
LEMMA LoadType ==
  ASSUME NEW file \in File, NEW bans \in loadBanList(file)
  PROVE  bans \in Seq(Ban)
<1> DEFINE n == Len(file.ipbans)
           m == Len(file.bans)
           N == 1..(n + m)
           Loaded(i) == IF i <= n THEN Reads(file.ipbans[i], TRUE)
                        ELSE Reads(file.bans[i - n], FALSE)
<1>0. Entry({NoIp}) \subseteq Entry(Ip)
  BY NoIpType DEF Entry
<1>1. ASSUME NEW e \in Entry(Ip), NEW isIp \in BOOLEAN PROVE Reads(e, isIp) \subseteq Ban
  <2> SUFFICES ASSUME NEW b \in Reads(e, isIp) PROVE b \in Ban
    OBVIOUS
  <2>1. PICK until \in (IF e.timed THEN {<<TRUE, e.time>>} ELSE BOOLEAN \X Duration) :
          b = [m_isIpBan |-> isIp, m_playerIp |-> IF isIp THEN e.ip ELSE NoIp,
               m_playerName |-> e.name, m_playerUUID |-> e.uuid, m_banTime |-> e.from,
               m_isTemporaryban |-> until[1], m_time |-> until[2], m_banId |-> "drawn"]
    BY DEF Reads
  <2>2. until[1] \in BOOLEAN /\ until[2] \in Duration
    <3>1. e.time \in Duration
      BY DEF Entry
    <3>2. CASE e.timed
      <4>1. until = <<TRUE, e.time>>
        BY <3>2, Zenon
      <4>2. until[1] = TRUE /\ until[2] = e.time
        BY <4>1
      <4> QED BY <3>1, <4>2
    <3>3. CASE ~e.timed
      BY <3>3
    <3> QED BY <3>2, <3>3
  <2>3. (IF isIp THEN e.ip ELSE NoIp) \in Ip
    BY NoIpType DEF Entry
  <2> QED BY <2>1, <2>2, <2>3 DEF Entry, Ban
<1>2. n \in Nat /\ m \in Nat
  BY DEF File
<1>3. ASSUME NEW i \in N PROVE Loaded(i) \subseteq Ban
  <2>1. CASE i <= n
    <3>1. file.ipbans[i] \in Entry(Ip)
      BY <1>2, <2>1 DEF File
    <3> QED BY <1>1, <2>1, <3>1
  <2>2. CASE ~(i <= n)
    <3>1. i - n \in 1..m /\ file.bans[i - n] \in Entry({NoIp})
      BY <1>2, <2>2 DEF File
    <3> QED BY <1>0, <1>1, <2>2, <3>1
  <2> QED BY <2>1, <2>2
<1>4. bans \in [N -> UNION {Loaded(i) : i \in N}] /\ \A i \in N : bans[i] \in Loaded(i)
  BY DEF loadBanList
<1>5. \A i \in N : bans[i] \in Ban
  BY <1>3, <1>4
<1>6. bans \in [N -> Ban]
  BY <1>4, <1>5
<1>7. \A k \in Nat : [1..k -> Ban] \subseteq Seq(Ban)
  OBVIOUS
<1>8. n + m \in Nat
  <2> HIDE DEF n, m
  <2> QED BY <1>2
<1> QED BY <1>6, <1>7, <1>8, Zenon

\* saveBanList writes a file that can be loaded.
LEMMA SaveType ==
  ASSUME NEW bans \in Seq(Ban), NEW file \in saveBanList(bans)
  PROVE  file \in File
<1> DEFINE n == Len(bans)
           Writes(f) == [i \in DOMAIN f |-> Written(bans[f[i]])]
           IpBans == {i \in DOMAIN bans : bans[i].m_isIpBan}
<1>1. n \in Nat /\ DOMAIN bans = 1..n /\ \A i \in 1..n : bans[i] \in Ban
  OBVIOUS
<1>2. ASSUME NEW b \in Ban
      PROVE  Written(b) \in Entry(Ip) /\ (~b.m_isIpBan => Written(b) \in Entry({NoIp}))
  BY <1>2 DEF Written, Entry, Ban
<1>3. ASSUME NEW K \in SUBSET (1..n), NEW f \in Listings(K),
             NEW ips, \A i \in K : Written(bans[i]) \in Entry(ips)
      PROVE  Writes(f) \in Seq(Entry(ips))
  <2>1. Cardinality(K) \in Nat /\ f \in [1..Cardinality(K) -> K]
    BY <1>1, ListingType
  <2>2. \A i \in 1..Cardinality(K) : Written(bans[f[i]]) \in Entry(ips)
    BY <1>3, <2>1
  <2> QED BY <2>1, <2>2
<1>4. PICK f \in Listings(IpBans), g \in Listings(DOMAIN bans \ IpBans) :
        file = [ipbans |-> Writes(f), bans |-> Writes(g)]
  BY DEF saveBanList
<1>5. IpBans \in SUBSET (1..n) /\ DOMAIN bans \ IpBans \in SUBSET (1..n)
  BY <1>1
<1>6. /\ \A i \in IpBans : Written(bans[i]) \in Entry(Ip)
      /\ \A i \in DOMAIN bans \ IpBans : Written(bans[i]) \in Entry({NoIp})
  BY <1>1, <1>2
<1>7. Writes(f) \in Seq(Entry(Ip)) /\ Writes(g) \in Seq(Entry({NoIp}))
  <2> HIDE DEF Writes, IpBans
  <2> QED BY <1>3, <1>5, <1>6
<1> QED BY <1>4, <1>7 DEF File

-----------------------------------------------------------------------------
(* Type correctness.                                                       *)

\* A new ban is a ban, whatever is left in the members the code does not set.
LEMMA NewBanType ==
  ASSUME NEW key \in Key, NEW temporary \in BOOLEAN, NEW time \in Duration, now \in 0..MaxTime
  PROVE  NewBan(key, temporary, time) \in Ban
<1>1. (IF key.by = "ip" THEN key.of ELSE NoIp) \in Ip
  BY NoIpType DEF Key
<1>2. (IF key.by = "name" THEN key.of ELSE Nobody) \in Player \cup {Nobody}
  BY DEF Key
<1>3. (IF key.by = "uuid" THEN key.of ELSE Nobody) \in Player \cup {Nobody}
  BY DEF Key
<1> QED BY <1>1, <1>2, <1>3 DEF NewBan, Ban

\* sendBanMessage lifts a ban by a key of the right kind.
LEMMA LiftKeyType ==
  ASSUME NEW b \in Ban, m_onlineMode \in BOOLEAN
  PROVE  LiftKey(b) \in Key
  BY DEF LiftKey, Ban, Key

\* Starting a thread keeps the types of what it changes.
LEMMA StartThreadType ==
  ASSUME NEW key \in Key, StartThread(key),
         unbanning \in [Thread -> Key \cup {Idle}], lifted \subseteq Key
  PROVE  unbanning' \in [Thread -> Key \cup {Idle}] /\ lifted' \subseteq Key
  BY DEF StartThread

\* TypeOK: whatever moderators, players and restarts do to the list.
THEOREM TypeCorrect == Spec => []TypeOK
<1>1. Init => TypeOK
  <2> SUFFICES ASSUME Init PROVE TypeOK
    OBVIOUS
  <2>1. now \in 0..MaxTime
    BY BoundAssumption DEF Init
  <2>2. verdict \in [peer : Peers \cup {NoPeer}, refused : BOOLEAN]
    BY DEF Init, NoVerdict
  <2>3. m_bans \in Seq(Ban) /\ banlist \in File
    BY FileAssumption DEF Init
  <2> QED BY <2>1, <2>2, <2>3 DEF Init, TypeOK
<1>2. TypeOK /\ [Next]_vars => TypeOK'
  <2> SUFFICES ASSUME TypeOK, [Next]_vars PROVE TypeOK'
    OBVIOUS
  <2>0. NoVerdict \in [peer : Peers \cup {NoPeer}, refused : BOOLEAN]
    BY DEF NoVerdict
  <2>1. ASSUME NEW key \in ModeratorKeys, NEW temporary \in BOOLEAN, NEW time \in Duration,
               ban(key, temporary, time)
        PROVE  TypeOK'
    <3>1. NewBan(key, temporary, time) \in Ban
      BY KeyAssumption, NewBanType DEF TypeOK
    <3>2. m_bans' \in Seq(Ban) /\ issued' \subseteq Ban
      BY <2>1, <3>1 DEF ban, TypeOK
    <3> QED BY <2>0, <2>1, <3>2 DEF ban, TypeOK
  <2>2. ASSUME NEW key \in ModeratorKeys, unban(key) PROVE TypeOK'
    <3>1. unbanning' \in [Thread -> Key \cup {Idle}] /\ lifted' \subseteq Key
      BY <2>2, KeyAssumption, StartThreadType DEF unban, TypeOK
    <3> QED BY <2>0, <2>2, <3>1 DEF unban, TypeOK
  <2>3. ASSUME NEW t \in Thread, _unban(t) PROVE TypeOK'
    <3>1. m_bans' \in Seq(Ban)
      BY <2>3, RemovedType DEF _unban, TypeOK
    <3>2. unbanning' \in [Thread -> Key \cup {Idle}]
      BY <2>3 DEF _unban, TypeOK
    <3> QED BY <2>0, <2>3, <3>1, <3>2 DEF _unban, TypeOK
  <2>4. ASSUME NEW p \in Peers, ConfigInfo(p) PROVE TypeOK'
    <3>1. verdict' \in [peer : Peers \cup {NoPeer}, refused : BOOLEAN]
      <4>1. PICK refused \in BOOLEAN : verdict' = [peer |-> p, refused |-> refused]
        BY <2>4, Zenon DEF ConfigInfo
      <4> QED BY <4>1
    <3>2. unbanning' \in [Thread -> Key \cup {Idle}] /\ lifted' \subseteq Key
      <4>1. CASE UNCHANGED <<unbanning, lifted>>
        BY <4>1 DEF TypeOK
      <4>2. CASE \E i \in DOMAIN m_bans : StartThread(LiftKey(m_bans[i]))
        <5>1. PICK i \in DOMAIN m_bans : StartThread(LiftKey(m_bans[i]))
          BY <4>2
        <5>2. m_bans[i] \in Ban
          BY DEF TypeOK
        <5>3. LiftKey(m_bans[i]) \in Key
          BY <5>2, LiftKeyType DEF TypeOK
        <5> QED BY <5>1, <5>3, StartThreadType DEF TypeOK
      <4> QED BY <2>4, <4>1, <4>2 DEF ConfigInfo
    <3> QED BY <2>4, <3>1, <3>2 DEF ConfigInfo, TypeOK
  <2>5. CASE Tick
    <3>1. now' \in 0..MaxTime
      BY <2>5, BoundAssumption DEF Tick, TypeOK
    <3> QED BY <2>0, <2>5, <3>1 DEF Tick, TypeOK
  <2>6. CASE load
    <3>1. banlist \in File
      BY <2>6 DEF load, TypeOK
    <3>2. m_bans' \in Seq(Ban)
      BY <2>6, <3>1, LoadType DEF load
    <3>3. issued' \subseteq Ban
      BY <2>6, <3>2 DEF load, Range
    <3> QED BY <2>6, <3>2, <3>3 DEF load, TypeOK
  <2>7. CASE loadThrows
    BY <2>7 DEF loadThrows, TypeOK
  <2>8. CASE openBanList
    BY <2>8 DEF openBanList, EmptyFile, File, TypeOK
  <2>9. CASE writeBanList
    <3>1. banlist' \in File
      BY <2>9, SaveType DEF writeBanList, TypeOK
    <3> QED BY <2>9, <3>1 DEF writeBanList, TypeOK
  <2>10. CASE Restart
    <3>1. banlist' \in File \cup {Torn}
      BY <2>10 DEF Restart, TypeOK
    <3> QED BY <2>0, <2>10, <3>1 DEF Restart, TypeOK
  <2>11. CASE UNCHANGED vars
    BY <2>11 DEF vars, TypeOK
  <2> QED
    BY <2>1, <2>2, <2>3, <2>4, <2>5, <2>6, <2>7, <2>8, <2>9, <2>10, <2>11 DEF Next
<1> QED BY <1>1, <1>2, PTL DEF Spec
-----------------------------------------------------------------------------
(* Lifting one ban leaves the others.                                      *)

\* A thread lifts by a key some unban was called with.
ThreadsLifted == \A t \in Thread : unbanning[t] # Idle => unbanning[t] \in lifted

\* A started thread runs on a lifted key, and no key is forgotten.
LEMMA StartThreadLifts ==
  ASSUME NEW key, StartThread(key), TypeOK, ThreadsLifted
  PROVE  ThreadsLifted' /\ lifted \subseteq lifted'
  BY DEF StartThread, TypeOK, ThreadsLifted

\* More lifted keys ask less of the same list.
LEMMA KeptUnderMoreKeys ==
  ASSUME OthersKept, lifted \subseteq lifted', UNCHANGED <<m_bans, issued>>
  PROVE  OthersKept'
  BY DEF OthersKept

\* OthersKept: the invariant needs only the keys the threads run on.
THEOREM OthersKeptCorrect == Spec => []OthersKept
<1> DEFINE Kept == OthersKept /\ ThreadsLifted
<1>1. Init => Kept
  BY DEF Init, OthersKept, ThreadsLifted
<1>2. TypeOK /\ Kept /\ [Next]_vars => Kept'
  <2> SUFFICES ASSUME TypeOK, OthersKept, ThreadsLifted, [Next]_vars PROVE Kept'
    OBVIOUS
  <2>1. ASSUME NEW key \in ModeratorKeys, NEW temporary \in BOOLEAN, NEW time \in Duration,
               ban(key, temporary, time)
        PROVE  Kept'
    <3> DEFINE new == NewBan(key, temporary, time)
    <3>1. m_bans' = Append(m_bans, new) /\ issued' = issued \cup {new} /\ lifted' = lifted
      BY <2>1 DEF ban
    <3>2. Range(m_bans') = Range(m_bans) \cup {new}
      <4> HIDE DEF new
      <4>1. m_bans \in Seq(Ban)
        BY DEF TypeOK
      <4>2. Len(m_bans) \in Nat /\ DOMAIN m_bans = 1..Len(m_bans)
        BY <4>1
      <4>3. DOMAIN m_bans' = 1..(Len(m_bans) + 1)
        BY <3>1, <4>1
      <4>4. \A i \in 1..(Len(m_bans) + 1) :
              m_bans'[i] = IF i = Len(m_bans) + 1 THEN new ELSE m_bans[i]
        BY <3>1, <4>1, <4>2
      <4> QED BY <4>2, <4>3, <4>4 DEF Range
    <3>3. OthersKept'
      BY <3>1, <3>2 DEF OthersKept
    <3>4. ThreadsLifted'
      BY <2>1 DEF ban, ThreadsLifted
    <3> QED BY <3>3, <3>4
  <2>2. ASSUME NEW key \in ModeratorKeys, unban(key) PROVE Kept'
    <3>1. ThreadsLifted' /\ lifted \subseteq lifted'
      BY <2>2, StartThreadLifts DEF unban
    <3> QED BY <2>2, <3>1, KeptUnderMoreKeys DEF unban
  <2>3. ASSUME NEW t \in Thread, _unban(t) PROVE Kept'
    <3> DEFINE K == {i \in DOMAIN m_bans : ~Lifts(unbanning[t], m_bans[i])}
    <3>1. unbanning[t] \in lifted
      BY <2>3 DEF _unban, ThreadsLifted
    <3>2. PICK f \in Listings(K) : m_bans' = Removed(m_bans, f)
      BY <2>3 DEF _unban
    <3>3. \A i \in K : m_bans[i] \in Range(m_bans')
      BY <3>2, RemovedType DEF TypeOK
    <3>4. ASSUME NEW b \in issued, \A key \in lifted : ~Lifts(key, b) PROVE b \in Range(m_bans')
      <4>1. PICK i \in DOMAIN m_bans : m_bans[i] = b
        BY <3>4 DEF OthersKept, Range
      <4>2. i \in K
        BY <3>1, <3>4, <4>1
      <4> QED BY <3>3, <4>1, <4>2
    <3>5. issued' = issued /\ lifted' = lifted
      BY <2>3 DEF _unban
    <3>6. OthersKept'
      BY <3>4, <3>5 DEF OthersKept
    <3>7. ThreadsLifted'
      BY <2>3 DEF _unban, TypeOK, ThreadsLifted
    <3> QED BY <3>6, <3>7
  <2>4. ASSUME NEW p \in Peers, ConfigInfo(p) PROVE Kept'
    <3>1. ThreadsLifted' /\ lifted \subseteq lifted'
      <4>1. CASE UNCHANGED <<unbanning, lifted>>
        BY <4>1 DEF ThreadsLifted
      <4>2. CASE \E i \in DOMAIN m_bans : StartThread(LiftKey(m_bans[i]))
        BY <4>2, StartThreadLifts
      <4> QED BY <2>4, <4>1, <4>2 DEF ConfigInfo
    <3> QED BY <2>4, <3>1, KeptUnderMoreKeys DEF ConfigInfo
  <2>5. CASE Tick
    BY <2>5 DEF Tick, OthersKept, ThreadsLifted
  <2>6. CASE load
    BY <2>6 DEF load, OthersKept, ThreadsLifted
  <2>7. CASE loadThrows \/ openBanList \/ writeBanList
    BY <2>7 DEF loadThrows, openBanList, writeBanList, OthersKept, ThreadsLifted
  <2>8. CASE Restart
    BY <2>8 DEF Restart, OthersKept, ThreadsLifted
  <2>9. CASE UNCHANGED vars
    BY <2>9 DEF vars, OthersKept, ThreadsLifted
  <2> QED BY <2>1, <2>2, <2>3, <2>4, <2>5, <2>6, <2>7, <2>8, <2>9 DEF Next
<1>3. Kept => OthersKept
  OBVIOUS
<1> HIDE DEF Kept
<1> QED BY <1>1, <1>2, <1>3, TypeCorrect, PTL DEF Spec

-----------------------------------------------------------------------------
(* Nobody is refused without a ban in force.                               *)

\* What remove_if leaves of a ban.
Descends(c, b) ==
  /\ c.m_isIpBan = b.m_isIpBan /\ c.m_playerUUID = b.m_playerUUID
  /\ c.m_playerName \in {b.m_playerName, Nobody} /\ c.m_playerIp \in {b.m_playerIp, NoIp}
  /\ c.m_banTime = b.m_banTime /\ c.m_isTemporaryban = b.m_isTemporaryban
  /\ c.m_time = b.m_time

\* Every entry of the list is what is left of a ban of this process.
Origin == \A i \in DOMAIN m_bans : \E b \in issued : Descends(m_bans[i], b)

\* While a process starts nobody has been refused.
Quiet == stage # "run" => verdict = NoVerdict

\* Moving from a ban once more takes nothing else away.
LEMMA MovedDescends ==
  ASSUME NEW c \in Ban, NEW b, Descends(c, b)
  PROVE  Descends(MovedFrom(c), b)
<1>1. /\ MovedFrom(c).m_isIpBan = c.m_isIpBan
      /\ MovedFrom(c).m_playerUUID = c.m_playerUUID
      /\ MovedFrom(c).m_playerName = Nobody
      /\ MovedFrom(c).m_playerIp = NoIp
      /\ MovedFrom(c).m_banTime = c.m_banTime
      /\ MovedFrom(c).m_isTemporaryban = c.m_isTemporaryban
      /\ MovedFrom(c).m_time = c.m_time
  BY DEF MovedFrom, Ban
<1> QED BY <1>1 DEF Descends

\* A ban in force is a reason to refuse a peer.
Reason(p, b) == InForce(b) /\ (Matches(p, b) \/ (~m_onlineMode /\ p.name = Nobody))

\* What is left of a ban matches nobody with a name whom the ban does not match,
\* and is in force no longer.
LEMMA DescendantWeaker ==
  ASSUME NEW p \in Peers, NEW c \in Ban, NEW b \in Ban, Descends(c, b),
         TypeOK, Matches(p, c), ~Expired(c)
  PROVE  Reason(p, b)
<1>1. getIP(p) # NoIp
  BY DEF getIP, NoIp
<1>2. Matches(p, b) \/ (~m_onlineMode /\ p.name = Nobody)
  <2>1. CASE ~m_onlineMode /\ c.m_playerName = p.name
    BY <2>1 DEF Matches, Descends
  <2>2. CASE m_onlineMode /\ c.m_playerUUID = p.uuid
    BY <2>2 DEF Matches, Descends
  <2>3. CASE c.m_isIpBan /\ c.m_playerIp = getIP(p)
    BY <1>1, <2>3 DEF Matches, Descends
  <2> QED BY <2>1, <2>2, <2>3 DEF Matches
<1>3. now \in Int /\ c.m_banTime \in Int /\ c.m_time \in Nat
  <2>1. c.m_banTime \in 0..MaxTime /\ c.m_time \in Duration
    BY DEF Ban
  <2>2. now \in 0..MaxTime
    BY DEF TypeOK
  <2>3. MaxTime \in Nat /\ Duration \subseteq Nat
    BY BoundAssumption
  <2>4. c.m_time \in Nat
    BY <2>1, <2>3
  <2>5. \A n \in 0..MaxTime : n \in Int
    BY <2>3
  <2> QED BY <2>1, <2>2, <2>4, <2>5
<1>4. InForce(c)
  BY <1>3 DEF Expired, InForce
<1>5. InForce(b)
  BY <1>4 DEF InForce, Descends
<1> QED BY <1>2, <1>5 DEF Reason

\* RefusalJustified: by the origin of the entries.
THEOREM RefusalJustifiedCorrect == Spec => []RefusalJustified
<1> DEFINE Justified == RefusalJustified /\ Origin
<1>0. NoVerdict.refused = FALSE
  BY DEF NoVerdict
<1>9. Spec => []Quiet
  <2>1. Init => Quiet
    BY DEF Init, Quiet
  <2>2. Quiet /\ [Next]_vars => Quiet'
    BY DEF Quiet, Next, vars, ban, unban, _unban, ConfigInfo, Tick, load, loadThrows,
           openBanList, writeBanList, Restart
  <2> QED BY <2>1, <2>2, PTL DEF Spec
<1>1. Init => Justified
  BY <1>0 DEF Init, RefusalJustified, Origin, Descends, Range
<1>2. TypeOK /\ Quiet /\ Justified /\ [Next]_vars => Justified'
  <2> SUFFICES ASSUME TypeOK, Quiet, RefusalJustified, Origin, [Next]_vars PROVE Justified'
    OBVIOUS
  <2>0. ASSUME verdict' = NoVerdict PROVE RefusalJustified'
    BY <1>0, <2>0 DEF RefusalJustified
  <2>1. ASSUME NEW key \in ModeratorKeys, NEW temporary \in BOOLEAN, NEW time \in Duration,
               ban(key, temporary, time)
        PROVE  Justified'
    <3> DEFINE new == NewBan(key, temporary, time)
    <3>1. m_bans' = Append(m_bans, new) /\ issued' = issued \cup {new}
      BY <2>1 DEF ban
    <3>2. Descends(new, new)
      BY DEF Descends
    <3>3. Origin'
      <4> HIDE DEF new
      <4>1. m_bans \in Seq(Ban)
        BY DEF TypeOK
      <4>2. Len(m_bans) \in Nat /\ DOMAIN m_bans = 1..Len(m_bans)
        BY <4>1
      <4>3. DOMAIN m_bans' = 1..(Len(m_bans) + 1)
        BY <3>1, <4>1
      <4>4. \A i \in 1..(Len(m_bans) + 1) :
              m_bans'[i] = IF i = Len(m_bans) + 1 THEN new ELSE m_bans[i]
        BY <3>1, <4>1, <4>2
      <4>5. ASSUME NEW i \in DOMAIN m_bans' PROVE \E b \in issued' : Descends(m_bans'[i], b)
        <5>1. CASE i = Len(m_bans) + 1
          BY <3>1, <3>2, <4>3, <4>4, <5>1
        <5>2. CASE i # Len(m_bans) + 1
          <6>1. i \in DOMAIN m_bans /\ m_bans'[i] = m_bans[i]
            BY <4>2, <4>3, <4>4, <5>2
          <6> QED BY <3>1, <6>1 DEF Origin
        <5> QED BY <5>1, <5>2
      <4> QED BY <4>5 DEF Origin
    <3> QED BY <2>0, <2>1, <3>3 DEF ban
  <2>2. ASSUME NEW key \in ModeratorKeys, unban(key) PROVE Justified'
    <3>1. Origin'
      BY <2>2 DEF unban, Origin
    <3> QED BY <2>0, <2>2, <3>1 DEF unban
  <2>3. ASSUME NEW t \in Thread, _unban(t) PROVE Justified'
    <3> DEFINE K == {i \in DOMAIN m_bans : ~Lifts(unbanning[t], m_bans[i])}
    <3>1. PICK f \in Listings(K) : m_bans' = Removed(m_bans, f)
      BY <2>3 DEF _unban
    <3>2. \A r \in DOMAIN m_bans' :
            \E i \in DOMAIN m_bans : m_bans'[r] \in {m_bans[i], MovedFrom(m_bans[i])}
      BY <3>1, RemovedType DEF TypeOK
    <3>3. \A i \in DOMAIN m_bans : m_bans[i] \in Ban
      BY DEF TypeOK
    <3>4. issued' = issued
      BY <2>3 DEF _unban
    <3>5. Origin'
      BY <3>2, <3>3, <3>4, MovedDescends DEF Origin
    <3> QED BY <2>0, <2>3, <3>5 DEF _unban
  <2>4. ASSUME NEW p \in Peers, ConfigInfo(p) PROVE Justified'
    <3>1. UNCHANGED <<m_bans, issued, now, m_onlineMode>>
      BY <2>4 DEF ConfigInfo
    <3>2. Origin'
      BY <3>1 DEF Origin
    <3>3. ASSUME verdict'.refused PROVE \E b \in issued : Reason(p, b)
      <4>0. verdict' # [peer |-> p, refused |-> FALSE]
        BY <3>3
      <4>1. PICK i \in DOMAIN m_bans : Matches(p, m_bans[i]) /\ ~Expired(m_bans[i])
        <5>1. PICK i \in {j \in DOMAIN m_bans : Matches(p, m_bans[j])} :
                verdict' = [peer |-> p, refused |-> ~Expired(m_bans[i])]
          BY <2>4, <4>0, Zenon DEF ConfigInfo
        <5>2. verdict'.refused = ~Expired(m_bans[i])
          BY <5>1
        <5> QED BY <3>3, <5>1, <5>2
      <4>2. PICK b \in issued : Descends(m_bans[i], b)
        BY DEF Origin
      <4>3. m_bans[i] \in Ban /\ b \in Ban
        BY DEF TypeOK
      <4> QED BY <4>1, <4>2, <4>3, DescendantWeaker
    <3>4. verdict'.peer = p
      BY <2>4 DEF ConfigInfo
    <3>5. RefusalJustified'
      BY <3>1, <3>3, <3>4 DEF RefusalJustified, Reason, Matches, InForce
    <3> QED BY <3>2, <3>5
  <2>5. CASE Tick
    BY <2>0, <2>5 DEF Tick, Origin
  <2>6. CASE load
    <3>1. issued' = Range(m_bans') /\ UNCHANGED <<verdict, m_onlineMode, now>>
      BY <2>6 DEF load
    <3>2. Origin'
      BY <3>1 DEF Origin, Descends, Range
    <3>3. ~verdict.refused
      BY <1>0, <2>6 DEF load, Quiet
    <3> QED BY <3>1, <3>2, <3>3 DEF RefusalJustified
  <2>7. CASE loadThrows \/ openBanList \/ writeBanList
    BY <2>7 DEF loadThrows, openBanList, writeBanList,
                RefusalJustified, Origin, Matches, InForce
  <2>8. CASE Restart
    <3>1. Origin'
      BY <2>8 DEF Restart, Origin
    <3> QED BY <2>0, <2>8, <3>1 DEF Restart
  <2>9. CASE UNCHANGED vars
    BY <2>9 DEF vars, RefusalJustified, Origin, Matches, InForce
  <2> QED BY <2>1, <2>2, <2>3, <2>4, <2>5, <2>6, <2>7, <2>8, <2>9 DEF Next
<1>3. Justified => RefusalJustified
  OBVIOUS
<1> HIDE DEF Justified
<1> QED BY <1>9, <1>1, <1>2, <1>3, TypeCorrect, PTL DEF Spec

-----------------------------------------------------------------------------
(* What a start reads it writes back.                                      *)

\* A ban keeps the list it was read from, and its time.
LEMMA ReadsBack ==
  ASSUME NEW isIp \in BOOLEAN, NEW e \in Entry(IF isIp THEN Ip ELSE {NoIp}),
         NEW b \in Reads(e, isIp), e.timed
  PROVE  Written(b) = e
<1>1. PICK until \in (IF e.timed THEN {<<TRUE, e.time>>} ELSE BOOLEAN \X Duration) :
        b = [m_isIpBan |-> isIp, m_playerIp |-> IF isIp THEN e.ip ELSE NoIp,
             m_playerName |-> e.name, m_playerUUID |-> e.uuid, m_banTime |-> e.from,
             m_isTemporaryban |-> until[1], m_time |-> until[2], m_banId |-> "drawn"]
  BY DEF Reads
<1>2. Written(b) = [ip |-> IF isIp THEN e.ip ELSE NoIp, name |-> e.name, uuid |-> e.uuid,
                    from |-> e.from, timed |-> until[1], time |-> until[2]]
  BY <1>1 DEF Written
<1>3. e = [ip |-> e.ip, name |-> e.name, uuid |-> e.uuid,
           from |-> e.from, timed |-> e.timed, time |-> e.time]
  BY DEF Entry
<1>4. until[1] = e.timed /\ until[2] = e.time
  <2>2. until = <<TRUE, e.time>>
    BY Zenon
  <2>3. e.timed = TRUE
    BY Zenon DEF Entry
  <2> QED BY <2>2, <2>3
<1>5. (IF isIp THEN e.ip ELSE NoIp) = e.ip
  BY DEF Entry
<1> QED BY <1>2, <1>3, <1>4, <1>5, Zenon

\* loadBanList: the IP bans come first, each list in the order of the file.
LEMMA LoadReads ==
  ASSUME NEW file \in File, NEW bans \in loadBanList(file)
  PROVE  /\ \A k \in DOMAIN file.ipbans :
              k \in DOMAIN bans /\ bans[k] \in Reads(file.ipbans[k], TRUE)
         /\ \A k \in DOMAIN file.bans :
              \E i \in DOMAIN bans : bans[i] \in Reads(file.bans[k], FALSE)
<1> DEFINE n == Len(file.ipbans)
           m == Len(file.bans)
           N == 1..(n + m)
           Loaded(i) == IF i <= n THEN Reads(file.ipbans[i], TRUE)
                        ELSE Reads(file.bans[i - n], FALSE)
<1>1. n \in Nat /\ m \in Nat /\ DOMAIN file.ipbans = 1..n /\ DOMAIN file.bans = 1..m
  BY DEF File
<1>2. bans \in [N -> UNION {Loaded(i) : i \in N}] /\ \A i \in N : bans[i] \in Loaded(i)
  BY DEF loadBanList
<1>3. DOMAIN bans = N
  BY <1>2
<1> HIDE DEF n, m
<1>4. ASSUME NEW k \in 1..n PROVE k \in N /\ bans[k] \in Reads(file.ipbans[k], TRUE)
  <2>1. k \in N /\ k <= n
    BY <1>1
  <2>2. bans[k] \in Loaded(k)
    BY <1>2, <2>1
  <2> QED BY <2>1, <2>2, Zenon
<1>5. ASSUME NEW k \in 1..m PROVE \E i \in N : bans[i] \in Reads(file.bans[k], FALSE)
  <2>1. PICK i \in N : i = n + k /\ ~(i <= n) /\ i - n = k
    BY <1>1
  <2>2. bans[i] \in Loaded(i)
    BY <1>2
  <2> QED BY <2>1, <2>2
<1> HIDE DEF N
<1> QED BY <1>1, <1>3, <1>4, <1>5

\* saveBanList: every ban is written.
LEMMA SaveWrites ==
  ASSUME NEW bans \in Seq(Ban), NEW file \in saveBanList(bans)
  PROVE  {Written(b) : b \in Range(bans)} \subseteq Range(file.ipbans) \cup Range(file.bans)
<1> DEFINE n == Len(bans)
           Writes(f) == [i \in DOMAIN f |-> Written(bans[f[i]])]
           IpBans == {i \in DOMAIN bans : bans[i].m_isIpBan}
<1>1. n \in Nat /\ DOMAIN bans = 1..n
  OBVIOUS
<1>2. PICK f \in Listings(IpBans), g \in Listings(DOMAIN bans \ IpBans) :
        file = [ipbans |-> Writes(f), bans |-> Writes(g)]
  BY DEF saveBanList
<1>3. IpBans \in SUBSET (1..n) /\ DOMAIN bans \ IpBans \in SUBSET (1..n)
  BY <1>1
<1>4. Range(f) = IpBans /\ Range(g) = DOMAIN bans \ IpBans
  BY <1>1, <1>3, ListingType
<1>5. ASSUME NEW h PROVE Range(Writes(h)) = {Written(bans[i]) : i \in Range(h)}
  BY DEF Range
<1>6. file.ipbans = Writes(f) /\ file.bans = Writes(g)
  BY <1>2
<1> HIDE DEF Writes
<1>7. /\ Range(file.ipbans) = {Written(bans[i]) : i \in IpBans}
      /\ Range(file.bans) = {Written(bans[i]) : i \in DOMAIN bans \ IpBans}
  BY <1>4, <1>5, <1>6, Zenon
<1> QED BY <1>7 DEF Range

\* Between reading and truncating, the list is what the file holds.
Loaded == stage = "save" => banlist \in File /\ m_bans \in loadBanList(banlist)

\* Every entry with a time is read into a ban that is written as this entry.
LEMMA TimedLoaded ==
  ASSUME NEW file \in File, NEW bans \in loadBanList(file),
         NEW e \in Timed(Range(file.ipbans) \cup Range(file.bans))
  PROVE  e \in Timed({Written(b) : b \in Range(bans)})
<1>1. e.timed
  BY DEF Timed
<1>2. CASE e \in Range(file.ipbans)
  <2>1. PICK k \in DOMAIN file.ipbans : e = file.ipbans[k]
    BY <1>2 DEF Range
  <2>2. e \in Entry(Ip)
    BY <2>1 DEF File
  <2>3. k \in DOMAIN bans /\ bans[k] \in Reads(e, TRUE)
    BY <2>1, LoadReads
  <2>4. Written(bans[k]) = e
    BY <1>1, <2>2, <2>3, ReadsBack
  <2> QED BY <1>1, <2>3, <2>4 DEF Timed, Range
<1>3. CASE e \in Range(file.bans)
  <2>1. PICK k \in DOMAIN file.bans : e = file.bans[k]
    BY <1>3 DEF Range
  <2>2. e \in Entry({NoIp})
    BY <2>1 DEF File
  <2>3. PICK i \in DOMAIN bans : bans[i] \in Reads(e, FALSE)
    BY <2>1, LoadReads
  <2>4. Written(bans[i]) = e
    BY <1>1, <2>2, <2>3, ReadsBack
  <2> QED BY <1>1, <2>3, <2>4 DEF Timed, Range
<1> QED BY <1>2, <1>3 DEF Timed

\* TimedBansPersist: what truncating takes off the disk is in m_bans, and what is
\* in m_bans is written.
THEOREM TimedBansPersistCorrect == Spec => TimedBansPersist
<1> DEFINE Dies  == stage = "write" /\ stage' = "read"
           Keeps == ~Dies => OnRecord \subseteq OnRecord'
<1>1. Init => Loaded
  BY DEF Init, Loaded
<1>2. TypeOK /\ Loaded /\ [Next]_vars => Loaded' /\ Keeps
  <2> SUFFICES ASSUME TypeOK, Loaded, [Next]_vars PROVE Loaded' /\ Keeps
    OBVIOUS
  <2>1. CASE load
    <3>1. banlist \in File
      BY <2>1 DEF load, TypeOK
    <3>2. Loaded'
      BY <2>1, <3>1 DEF load, Loaded
    <3>3. OnRecord' = OnRecord
      BY <2>1 DEF load, OnRecord
    <3> QED BY <3>2, <3>3
  <2>2. CASE loadThrows
    BY <2>2 DEF loadThrows, Loaded, OnRecord
  <2>3. CASE openBanList
    <3>1. banlist \in File /\ m_bans \in loadBanList(banlist)
      BY <2>3 DEF openBanList, Loaded
    <3>2. OnRecord = Timed(Range(banlist.ipbans) \cup Range(banlist.bans))
      BY <2>3, <3>1, FileAssumption DEF openBanList, OnRecord
    <3>3. OnRecord' = Timed({Written(b) : b \in Range(m_bans)})
      BY <2>3 DEF openBanList, OnRecord
    <3>4. OnRecord \subseteq OnRecord'
      BY <3>1, <3>2, <3>3, TimedLoaded
    <3> QED BY <2>3, <3>4 DEF openBanList, Loaded
  <2>4. CASE writeBanList
    <3>1. m_bans \in Seq(Ban) /\ banlist' \in saveBanList(m_bans)
      BY <2>4 DEF writeBanList, TypeOK
    <3>2. banlist' \in File
      BY <3>1, SaveType
    <3>3. OnRecord = Timed({Written(b) : b \in Range(m_bans)})
      BY <2>4 DEF writeBanList, OnRecord
    <3>4. OnRecord' = Timed(Range(banlist'.ipbans) \cup Range(banlist'.bans))
      BY <2>4, <3>2, FileAssumption DEF writeBanList, OnRecord
    <3>5. OnRecord \subseteq OnRecord'
      BY <3>1, <3>3, <3>4, SaveWrites DEF Timed
    <3> QED BY <2>4, <3>5 DEF writeBanList, Loaded
  <2>5. CASE Restart
    <3>1. Loaded'
      BY <2>5 DEF Restart, Loaded
    <3>2. CASE stage = "write"
      BY <2>5, <3>1, <3>2 DEF Restart
    <3>3. CASE stage # "write"
      <4>1. banlist' = banlist
        BY <2>5, <3>3 DEF Restart
      <4> QED BY <2>5, <3>1, <3>3, <4>1 DEF Restart, OnRecord
    <3> QED BY <3>2, <3>3
  <2>6. CASE stage = "run" /\ UNCHANGED <<stage, banlist>>
    BY <2>6 DEF Loaded, OnRecord
  <2>7. CASE UNCHANGED <<stage, banlist, m_bans>>
    BY <2>7 DEF Loaded, OnRecord
  <2>8. \/ load \/ loadThrows \/ openBanList \/ writeBanList \/ Restart
        \/ stage = "run" /\ UNCHANGED <<stage, banlist>>
        \/ UNCHANGED <<stage, banlist, m_bans>>
    BY DEF Next, ban, unban, _unban, ConfigInfo, Tick, vars
  <2> QED BY <2>1, <2>2, <2>3, <2>4, <2>5, <2>6, <2>7, <2>8
<1>3. TypeOK /\ Loaded /\ [Next]_vars => [Keeps]_vars
  BY <1>2
<1> HIDE DEF Keeps
<1>4. Spec => []Loaded
  BY <1>1, <1>2, TypeCorrect, PTL DEF Spec
<1>5. Spec => [][Keeps]_vars
  BY <1>3, <1>4, TypeCorrect, PTL DEF Spec
<1> QED BY <1>5 DEF Keeps, TimedBansPersist
=============================================================================
