--------------------------- MODULE PeerConnsProofs ---------------------------
(***************************************************************************)
(* Proofs about PeerConns, for any processes, devices, addresses, numbers  *)
(* of connections and capacities: type correctness, that connections are   *)
(* filed under what they reach, and that a live one is not interrupted.    *)
(***************************************************************************)
EXTENDS PeerConns, FiniteSetTheorems, TLAPS

USE DEF env, discovery, inbound, wire

DeviceAt(k) == IF k \in Device THEN k ELSE DeviceOf[k]

(* The table t and the connections f fit together: what is filed is a connection that
   has not been closed and knows its key, which belongs to the device at its address;
   and a connection that has not been closed is filed.                              *)
Filing(t, f) ==
  /\ DOMAIN t \subseteq Key /\ t \in [DOMAIN t -> Slots]
  /\ f \in [Slots -> Conn \cup {NoConn}]
  /\ \A k \in DOMAIN t : f[t[k]] # NoConn /\ ~f[t[k]].closed /\ f[t[k]].key = k
  /\ \A c \in Slots : f[c] # NoConn =>
       /\ DeviceAt(f[c].key) = Home[f[c].addr]
       /\ ~f[c].closed => f[c].key \in DOMAIN t /\ t[f[c].key] = c

(* After its handshake a connection is filed under a device. *)
Checked(f) ==
  \A c \in Slots :
    f[c] # NoConn /\ ~f[c].closed /\ f[c].phase \in {"checked", "up", "dead"} =>
      f[c].key \in Device

LEMMA NoConnIsNone ==
  /\ NoConn \notin Conn /\ NoConn.phase = "backoff" /\ NoConn.closed
  /\ Process \subseteq Key /\ Device \subseteq Key
  BY PeerConnsAssumption DEF NoConn, Conn, Key

LEMMA ClosedFacts ==
  ASSUME NEW r \in Conn
  PROVE  /\ Closed(r) \in Conn \cup {NoConn}
         /\ Closed(r) # NoConn =>
              Closed(r).closed /\ Closed(r).key = r.key /\ Closed(r).addr = r.addr
  BY NoConnIsNone DEF Closed, Conn

(* A connection is closed and forgotten. *)
LEMMA DropFiling ==
  ASSUME NEW t, NEW f, NEW k \in DOMAIN t, NEW t2, NEW f2, NEW x, Filing(t, f), x = t[k],
         t2 = Restrict(t, DOMAIN t \ {k}),
         f2 \in [Slots -> Conn \cup {NoConn}], f2[x] = Closed(f[x]),
         \A c \in Slots : c # x => f2[c] = f[c]
  PROVE  Filing(t2, f2)
<1>1. x \in Slots /\ f[x] \in Conn /\ f[x].key = k
  BY DEF Filing
<1>2. f2 \in [Slots -> Conn \cup {NoConn}] /\ f2[x] = Closed(f[x])
  OBVIOUS
<1>3. \A c \in Slots : c # x => f2[c] = f[c]
  OBVIOUS
<1>4. DOMAIN t2 = DOMAIN t \ {k} /\ \A l \in DOMAIN t2 : t2[l] = t[l]
  BY DEF Restrict
<1>5. DOMAIN t2 \subseteq Key /\ t2 \in [DOMAIN t2 -> Slots]
  BY DEF Filing, Restrict
<1>6. ASSUME NEW l \in DOMAIN t2
      PROVE  f2[t2[l]] # NoConn /\ ~f2[t2[l]].closed /\ f2[t2[l]].key = l
  <2>1. l # k /\ l \in DOMAIN t /\ t2[l] = t[l] /\ t[l] \in Slots
    BY <1>4 DEF Filing
  <2>2. f[t[l]].key = l /\ t[l] # x
    BY <1>1, <2>1 DEF Filing
  <2>3. QED
    BY <1>3, <2>1, <2>2 DEF Filing
<1>7. ASSUME NEW c \in Slots, f2[c] # NoConn
      PROVE  /\ DeviceAt(f2[c].key) = Home[f2[c].addr]
             /\ ~f2[c].closed => f2[c].key \in DOMAIN t2 /\ t2[f2[c].key] = c
  <2>1. CASE c = x
    BY <1>1, <1>2, <1>7, <2>1, ClosedFacts, NoConnIsNone DEF Filing
  <2>2. CASE c # x
    <3>1. f2[c] = f[c]
      BY <1>3, <2>2
    <3>2. ~f[c].closed => f[c].key # k /\ f[c].key \in DOMAIN t /\ t[f[c].key] = c
      BY <1>7, <2>2, <3>1 DEF Filing
    <3>3. DeviceAt(f[c].key) = Home[f[c].addr]
      BY <1>7, <3>1 DEF Filing
    <3>4. QED
      BY <1>4, <3>1, <3>2, <3>3
  <2>3. QED
    BY <2>1, <2>2
<1>8. QED
  BY <1>2, <1>5, <1>6, <1>7 DEF Filing

(* A new connection is filed. *)
LEMMA NewFiling ==
  ASSUME NEW t, NEW f, NEW k \in Key, NEW c \in Slots, NEW r \in Conn, NEW t2, NEW f2,
         Filing(t, f), k \notin DOMAIN t, f[c] = NoConn,
         r.key = k, ~r.closed, DeviceAt(k) = Home[r.addr],
         t2 = File(t, k, c), f2 = [f EXCEPT ![c] = r]
  PROVE  Filing(t2, f2)
<1>1. DOMAIN t2 = DOMAIN t \cup {k} /\ t2[k] = c /\ \A l \in DOMAIN t : t2[l] = t[l]
  BY DEF File
<1>2. DOMAIN t2 \subseteq Key /\ t2 \in [DOMAIN t2 -> Slots]
  BY DEF File, Filing
<1>3. /\ f2 \in [Slots -> Conn \cup {NoConn}] /\ f2[c] = r
      /\ \A x \in Slots : x # c => f2[x] = f[x]
  BY DEF Filing
<1>4. ASSUME NEW l \in DOMAIN t2
      PROVE  f2[t2[l]] # NoConn /\ ~f2[t2[l]].closed /\ f2[t2[l]].key = l
  <2>1. CASE l = k
    BY <1>1, <1>3, <2>1, NoConnIsNone
  <2>2. CASE l \in DOMAIN t
    <3>1. t2[l] = t[l] /\ t[l] \in Slots /\ t[l] # c
      BY <1>1, <2>2 DEF Filing
    <3>2. QED
      BY <1>3, <2>2, <3>1 DEF Filing
  <2>3. QED
    BY <1>1, <2>1, <2>2
<1>5. ASSUME NEW x \in Slots, f2[x] # NoConn
      PROVE  /\ DeviceAt(f2[x].key) = Home[f2[x].addr]
             /\ ~f2[x].closed => f2[x].key \in DOMAIN t2 /\ t2[f2[x].key] = x
  <2>1. CASE x = c
    BY <1>1, <1>3, <2>1
  <2>2. CASE x # c
    BY <1>1, <1>3, <1>5, <2>2 DEF Filing
  <2>3. QED
    BY <2>1, <2>2
<1>6. QED
  BY <1>2, <1>3, <1>4, <1>5 DEF Filing

(* A connection goes to the device at its address, in place of what that one had. *)
LEMMA RefileFiling ==
  ASSUME NEW t, NEW f, NEW k \in DOMAIN t, NEW d \in Device, NEW t2, NEW f2,
         Filing(t, f), k # d, DeviceAt(k) = d,
         t2 = File(Restrict(t, DOMAIN t \ {k}), d, t[k]),
         f2 = [c \in Slots |-> IF c = t[k] THEN [f[c] EXCEPT !.key = d]
                               ELSE IF d \in DOMAIN t /\ c = t[d] THEN NoConn ELSE f[c]]
  PROVE  Filing(t2, f2)
<1> DEFINE x == t[k]
<1>1. x \in Slots /\ f[x] \in Conn /\ f[x].key = k /\ ~f[x].closed
  BY DEF Filing
<1>2. d \in DOMAIN t => t[d] \in Slots /\ t[d] # x
  BY <1>1 DEF Filing
<1>3. /\ f2[x] \in Conn /\ f2[x].key = d /\ ~f2[x].closed /\ f2[x].addr = f[x].addr
  BY <1>1, NoConnIsNone DEF Conn
<1>4. /\ \A c \in Slots : c # x /\ (d \in DOMAIN t => c # t[d]) => f2[c] = f[c]
      /\ d \in DOMAIN t => f2[t[d]] = NoConn
  BY <1>1, <1>2
<1>5. f2 \in [Slots -> Conn \cup {NoConn}]
  <2>1. \A c \in Slots : f2[c] \in Conn \cup {NoConn}
    BY <1>1, <1>3, <1>4 DEF Filing
  <2>2. QED
    BY <2>1
<1>6. /\ DOMAIN t2 = (DOMAIN t \ {k}) \cup {d} /\ t2[d] = x
      /\ \A l \in DOMAIN t : l # k /\ l # d => t2[l] = t[l]
  BY DEF File, Restrict
<1>7. DOMAIN t2 \subseteq Key /\ t2 \in [DOMAIN t2 -> Slots]
  <2>1. \A l \in DOMAIN t2 : l \in Key /\ t2[l] \in Slots
    BY <1>1, <1>6, NoConnIsNone DEF Filing
  <2>2. t2 = [l \in DOMAIN t2 |-> t2[l]]
    BY DEF File
  <2>3. QED
    BY <2>1, <2>2
<1>8. ASSUME NEW l \in DOMAIN t2
      PROVE  f2[t2[l]] # NoConn /\ ~f2[t2[l]].closed /\ f2[t2[l]].key = l
  <2>1. CASE l = d
    BY <1>3, <1>6, <2>1, NoConnIsNone
  <2>2. CASE l # d
    <3>1. l # k /\ l \in DOMAIN t /\ t2[l] = t[l] /\ t[l] \in Slots
      BY <1>6, <2>2 DEF Filing
    <3>2. f[t[l]] # NoConn /\ ~f[t[l]].closed /\ f[t[l]].key = l
      BY <3>1 DEF Filing
    <3>3. t[l] # x /\ (d \in DOMAIN t => t[l] # t[d])
      BY <1>1, <2>2, <3>1, <3>2 DEF Filing
    <3>4. f2[t2[l]] = f[t[l]]
      BY <1>4, <3>1, <3>3
    <3>5. QED
      BY <3>2, <3>4
  <2>3. QED
    BY <2>1, <2>2
<1>9. ASSUME NEW c \in Slots, f2[c] # NoConn
      PROVE  /\ DeviceAt(f2[c].key) = Home[f2[c].addr]
             /\ ~f2[c].closed => f2[c].key \in DOMAIN t2 /\ t2[f2[c].key] = c
  <2>1. CASE c = x
    <3>1. Home[f[x].addr] = d
      BY <1>1, NoConnIsNone DEF Filing
    <3>2. QED
      BY <1>3, <1>6, <2>1, <3>1 DEF DeviceAt
  <2>2. CASE c # x
    <3>1. f2[c] = f[c] /\ (d \in DOMAIN t => c # t[d])
      BY <1>4, <1>9, <2>2
    <3>2. /\ DeviceAt(f[c].key) = Home[f[c].addr]
          /\ ~f[c].closed => f[c].key \in DOMAIN t /\ t[f[c].key] = c
      BY <1>9, <3>1 DEF Filing
    <3>3. ~f[c].closed => f[c].key # k /\ f[c].key # d
      BY <2>2, <3>1, <3>2
    <3>4. QED
      BY <1>6, <3>1, <3>2, <3>3
  <2>3. QED
    BY <2>1, <2>2
<1>10. QED
  BY <1>5, <1>7, <1>8, <1>9 DEF Filing

(* A closed connection ends. *)
LEMMA EndFiling ==
  ASSUME NEW t, NEW f, NEW c \in Slots, f[c] # NoConn, NEW f2,
         Filing(t, f), f2 = Ended(c, f)
  PROVE  /\ Filing(t, f2)
         /\ \A x \in Slots : f2[x] = f[x] \/ f2[x] = NoConn
         /\ \A x \in Slots : f2[x] # f[x] => x = c /\ f[c].closed
<1>1. CASE f[c].closed
  <2>1. f2 \in [Slots -> Conn \cup {NoConn}] /\ f2[c] = NoConn
    BY <1>1 DEF Ended, Filing
  <2>2. \A x \in Slots : x # c => f2[x] = f[x]
    BY <1>1 DEF Ended, Filing
  <2>3. \A k \in DOMAIN t : t[k] \in Slots /\ t[k] # c
    BY <1>1 DEF Filing
  <2>4. QED
    BY <1>1, <2>1, <2>2, <2>3 DEF Filing
<1>2. CASE ~f[c].closed
  BY <1>2 DEF Ended
<1>3. QED
  BY <1>1, <1>2

(***************************************************************************)
(* The operations of the table.                                            *)
(***************************************************************************)
WireInv == Filing(table, conn) /\ Checked(conn)

(* What LiveStays says of a step. *)
Kept ==
  \A d \in Device : Live(d) =>
    d \in DOMAIN table' /\ table'[d] = table[d] /\ conn'[table[d]].phase \in {"up", "dead"}

LEMMA LiveFacts ==
  ASSUME WireInv, NEW d \in Device, Live(d)
  PROVE  /\ d \in Filed /\ table[d] \in Slots /\ conn[table[d]] \in Conn
         /\ conn[table[d]].phase = "up" /\ conn[table[d]].key = d
  BY DEF Live, Filed, WireInv, Filing

(* A connection changes its phase only. *)
LEMMA PhaseFiling ==
  ASSUME WireInv, NEW c \in Slots, conn[c] # NoConn, NEW p \in Phase
  PROVE  LET f == [conn EXCEPT ![c].phase = p]
         IN /\ Filing(table, f) /\ f[c] \in Conn /\ f[c].phase = p
            /\ f[c].closed = conn[c].closed /\ f[c].key = conn[c].key
            /\ f[c].addr = conn[c].addr /\ \A x \in Slots : x # c => f[x] = conn[x]
<1> DEFINE f == [conn EXCEPT ![c].phase = p]
<1>1. conn[c] \in Conn /\ conn \in [Slots -> Conn \cup {NoConn}]
  BY DEF WireInv, Filing
<1>2. f[c] = [conn[c] EXCEPT !.phase = p] /\ \A x \in Slots : x # c => f[x] = conn[x]
  BY <1>1
<1>3. /\ f[c] \in Conn /\ f[c].phase = p
      /\ f[c].closed = conn[c].closed /\ f[c].key = conn[c].key /\ f[c].addr = conn[c].addr
  BY <1>1, <1>2 DEF Conn
<1>4. f \in [Slots -> Conn \cup {NoConn}]
  BY <1>1, <1>2, <1>3
<1> HIDE DEF f
<1>5. \A k \in DOMAIN table : f[table[k]] # NoConn /\ ~f[table[k]].closed /\ f[table[k]].key = k
  <2> TAKE k \in DOMAIN table
  <2>1. /\ table[k] \in Slots /\ conn[table[k]] # NoConn /\ ~conn[table[k]].closed
        /\ conn[table[k]].key = k
    BY DEF WireInv, Filing
  <2>2. QED
    BY <1>2, <1>3, <2>1, NoConnIsNone
<1>6. \A x \in Slots : f[x] # NoConn =>
        /\ conn[x] # NoConn /\ f[x].closed = conn[x].closed
        /\ f[x].key = conn[x].key /\ f[x].addr = conn[x].addr
  BY <1>2, <1>3
<1>7. Filing(table, f)
  BY <1>4, <1>5, <1>6 DEF WireInv, Filing
<1>8. QED
  BY <1>2, <1>3, <1>7 DEF f

(* What is not touched is kept. *)
LEMMA UnchangedKeeps ==
  ASSUME WireInv, UNCHANGED wire
  PROVE  WireInv' /\ Kept
<1>1. table' = table /\ conn' = conn
  OBVIOUS
<1>2. WireInv'
  BY <1>1 DEF WireInv, Filing, Checked
<1>3. Kept
  BY <1>1, LiveFacts DEF Kept, Filed
<1>4. QED
  BY <1>2, <1>3

LEMMA NudgeKeeps ==
  ASSUME WireInv, NEW c \in Slots, conn[c] # NoConn, Nudge(c)
  PROVE  WireInv' /\ Kept
<1> DEFINE p == IF conn[c].phase = "backoff" THEN "dial" ELSE conn[c].phase
<1>1. conn[c] \in Conn /\ p \in Phase
  BY DEF WireInv, Filing, Conn, Phase
<1>2. conn' = [conn EXCEPT ![c].phase = p] /\ table' = table
  BY DEF Nudge
<1>3. /\ Filing(table, conn') /\ conn'[c].phase = p
      /\ conn'[c].closed = conn[c].closed /\ conn'[c].key = conn[c].key
      /\ \A x \in Slots : x # c => conn'[x] = conn[x]
  <2> HIDE DEF p
  <2>1. QED
    BY ZenonT(90), <1>1, <1>2, PhaseFiling
<1>4. Checked(conn')
  BY <1>3 DEF WireInv, Checked
<1>5. Kept
  BY <1>2, <1>3, LiveFacts DEF Kept, Filed
<1>6. QED
  BY <1>2, <1>3, <1>4, <1>5 DEF WireInv

LEMMA ReplaceKeeps ==
  ASSUME WireInv, NEW k \in Key, NEW a \in Addr, DeviceAt(k) = Home[a],
         k \in Device => ~Connected(k), Replace(k, a)
  PROVE  WireInv' /\ Kept
<1> DEFINE t1 == Restrict(table, Filed \ {k})
           f1 == IF k \in Filed THEN [conn EXCEPT ![table[k]] = Closed(@)] ELSE conn
           r  == [key |-> k, addr |-> a, phase |-> "dial", closed |-> FALSE]
<1>1. PICK new \in Slots : f1[new] = NoConn /\ conn' = [f1 EXCEPT ![new] = r]
                           /\ table' = File(table, k, new)
  BY DEF Replace
<1>2. r \in Conn
  BY DEF Conn, Phase
<1>3. DOMAIN t1 = Filed \ {k} /\ \A l \in DOMAIN t1 : t1[l] = table[l]
  BY DEF Restrict, Filed
<1>4. Filing(t1, f1) /\ Checked(f1)
  <2>1. CASE k \in Filed
    <3> DEFINE x == table[k]
    <3>1. x \in Slots /\ conn[x] \in Conn /\ k \in DOMAIN table
      BY <2>1 DEF WireInv, Filing, Filed
    <3>2. /\ f1 \in [Slots -> Conn \cup {NoConn}] /\ f1[x] = Closed(conn[x])
          /\ \A c \in Slots : c # x => f1[c] = conn[c]
      BY <2>1, <3>1, ClosedFacts DEF WireInv, Filing
    <3>3. Checked(f1)
      BY <3>1, <3>2, ClosedFacts DEF Checked, WireInv
    <3>4. Filing(table, conn) /\ t1 = Restrict(table, DOMAIN table \ {k}) /\ x = table[k]
      BY DEF WireInv, Filed
    <3> HIDE DEF t1, f1, x
    <3>5. QED
      BY <3>1, <3>2, <3>3, <3>4, DropFiling
  <2>2. CASE k \notin Filed
    <3>1. t1 = table
      BY ZenonT(60), <2>2 DEF Restrict, Filed, WireInv, Filing
    <3>2. QED
      BY <2>2, <3>1 DEF WireInv
  <2>3. QED
    BY <2>1, <2>2
<1>5. table' = File(t1, k, new)
  BY <1>1, <1>3 DEF File, Filed
<1>6. Filing(table', conn')
  <2>1. r.key = k /\ ~r.closed /\ r.addr = a
    OBVIOUS
  <2> HIDE DEF t1, f1, r
  <2>2. QED
    BY <1>1, <1>2, <1>3, <1>4, <1>5, <2>1, NewFiling
<1>7. \A x \in Slots : x # new => conn'[x] = f1[x]
  BY <1>1, <1>4 DEF Filing
<1>8. Checked(conn')
  <2>1. conn'[new] = r
    BY <1>1, <1>4 DEF Filing
  <2>2. QED
    BY <1>4, <1>7, <2>1 DEF Checked
<1>9. Kept
  <2> SUFFICES ASSUME NEW d \in Device, Live(d)
               PROVE  d \in DOMAIN table' /\ table'[d] = table[d]
                      /\ conn'[table[d]].phase \in {"up", "dead"}
    BY DEF Kept
  <2>1. d # k
    BY DEF Live, Connected
  <2>2. /\ d \in Filed /\ table[d] \in Slots /\ conn[table[d]] # NoConn
        /\ conn[table[d]].phase = "up" /\ conn[table[d]].key = d
    BY LiveFacts, NoConnIsNone
  <2>3. table'[d] = table[d] /\ d \in DOMAIN table'
    BY <1>1, <2>1, <2>2 DEF File, Filed
  <2>4. f1[table[d]] = conn[table[d]]
    <3>1. k \in Filed => table[k] # table[d]
      BY <2>1, <2>2 DEF WireInv, Filing, Filed
    <3>2. QED
      BY <2>2, <3>1 DEF WireInv, Filing
  <2>5. table[d] # new
    BY <1>1, <2>2, <2>4
  <2>6. QED
    BY <1>7, <2>2, <2>3, <2>4, <2>5
<1>10. QED
  BY <1>6, <1>8, <1>9 DEF WireInv

LEMMA ConnectKeeps ==
  ASSUME WireInv, NEW d \in Device, NEW a \in Addr, Home[a] = d, Connect(d, a)
  PROVE  WireInv' /\ Kept
<1>1. CASE UNCHANGED wire
  BY <1>1, UnchangedKeeps
<1>2. CASE d \in Filed /\ Nudge(table[d])
  <2>1. table[d] \in Slots /\ conn[table[d]] # NoConn
    BY <1>2 DEF WireInv, Filing, Filed
  <2>2. QED
    BY <1>2, <2>1, NudgeKeeps
<1>3. CASE ~Connected(d) /\ Replace(d, a)
  <2>1. d \in Key /\ DeviceAt(d) = Home[a]
    BY NoConnIsNone DEF DeviceAt
  <2>2. QED
    BY <1>3, <2>1, ReplaceKeeps
<1>4. QED
  BY <1>1, <1>2, <1>3 DEF Connect

LEMMA ConnectBySIDKeeps ==
  ASSUME WireInv, NEW s \in Process, NEW a \in Addr, DeviceOf[s] = Home[a],
         ConnectBySID(s, a)
  PROVE  WireInv' /\ Kept
<1>1. s \in Key /\ s \notin Device /\ DeviceAt(s) = Home[a]
  BY PeerConnsAssumption, NoConnIsNone DEF DeviceAt
<1>2. CASE UNCHANGED wire
  BY <1>2, UnchangedKeeps
<1>3. CASE \E c \in Range(table) : Nudge(c)
  <2>1. PICK c \in Range(table) : Nudge(c)
    BY <1>3
  <2>2. PICK k \in DOMAIN table : c = table[k]
    BY DEF Range
  <2>3. c \in Slots /\ conn[c] # NoConn
    BY <2>2 DEF WireInv, Filing
  <2>4. QED
    BY <2>1, <2>3, NudgeKeeps
<1>4. CASE Replace(s, a)
  BY <1>1, <1>4, ReplaceKeeps
<1>5. QED
  BY <1>2, <1>3, <1>4 DEF ConnectBySID

(* A connection that was not up when it was dropped or filed anew leaves the live ones
   alone; f and c: c has done its handshake.                                        *)
LEMMA AdoptKeeps ==
  ASSUME WireInv, NEW f, Filing(table, f), NEW c \in Slots, conn[c].phase # "up",
         f[c] # NoConn, \A x \in Slots : x # c => f[x] = conn[x],
         NEW k, f[c].key = k, NEW d \in Device, DeviceAt(k) = d, Adopt(k, d, f)
  PROVE  WireInv' /\ Kept
<1>1. \A e \in Device : Live(e) => table[e] # c /\ f[table[e]] = conn[table[e]]
  BY LiveFacts
<1>2. \A x \in Slots : x # c /\ f[x] # NoConn /\ ~f[x].closed
         /\ f[x].phase \in {"checked", "up", "dead"} => f[x].key \in Device
  BY DEF WireInv, Checked
<1>3. CASE (k = d \/ k \notin Filed) /\ conn' = f /\ UNCHANGED table
  <2>1. Filing(table', conn')
    BY <1>3
  <2>2. ~f[c].closed => k \in Device
    BY <1>3 DEF Filing, Filed
  <2>3. Checked(conn')
    BY <1>2, <1>3, <2>2 DEF Checked
  <2>4. Kept
    BY <1>1, <1>3, LiveFacts DEF Kept, Filed
  <2>5. QED
    BY <2>1, <2>3, <2>4 DEF WireInv
<1>4. ASSUME k # d, k \in Filed
      PROVE  /\ table[k] \in Slots /\ f[table[k]] \in Conn /\ k \notin Device
             /\ f[table[k]].key = k /\ ~f[table[k]].closed
             /\ ~f[c].closed => table[k] = c
             /\ \A e \in Device : Live(e) => e # k /\ table[e] # table[k]
  <2>1. table[k] \in Slots /\ f[table[k]] \in Conn /\ f[table[k]].key = k
        /\ ~f[table[k]].closed
    BY <1>4 DEF Filing, Filed
  <2>2. k \notin Device
    BY <1>4 DEF DeviceAt
  <2>3. ~f[c].closed => table[k] = c
    BY DEF Filing
  <2>4. \A e \in Device : Live(e) => table[e] # table[k]
    BY <1>1, <2>1, <2>2, LiveFacts
  <2>5. QED
    BY <2>1, <2>2, <2>3, <2>4
<1>5. CASE k # d /\ k \in Filed /\ Drop(k, f)
  <2>1. /\ table' = Restrict(table, DOMAIN table \ {k})
        /\ conn' = [f EXCEPT ![table[k]] = Closed(@)] /\ k \in DOMAIN table
    BY <1>5 DEF Drop, Filed
  <2>2. /\ conn'[table[k]] = Closed(f[table[k]])
        /\ \A x \in Slots : x # table[k] => conn'[x] = f[x]
    BY <1>4, <1>5, <2>1 DEF Filing
  <2>3. Filing(table', conn')
    <3> DEFINE x == table[k]
    <3>1. conn' \in [Slots -> Conn \cup {NoConn}]
      BY <1>4, <1>5, <2>1, ClosedFacts DEF Filing
    <3>2. x = table[k] /\ conn'[x] = Closed(f[x]) /\ \A y \in Slots : y # x => conn'[y] = f[y]
      BY <2>2
    <3>3. /\ Filing(table, f) /\ k \in DOMAIN table
          /\ table' = Restrict(table, DOMAIN table \ {k})
      BY <2>1
    <3> HIDE DEF x
    <3>4. QED
      BY <3>1, <3>2, <3>3, DropFiling
  <2>4. conn'[table[k]] # NoConn => conn'[table[k]].closed
    BY <1>4, <1>5, <2>2, ClosedFacts
  <2>5. Checked(conn')
    BY <1>2, <1>4, <1>5, <2>2, <2>4 DEF Checked
  <2>6. Kept
    <3> SUFFICES ASSUME NEW e \in Device, Live(e)
                 PROVE  e \in DOMAIN table' /\ table'[e] = table[e]
                        /\ conn'[table[e]].phase \in {"up", "dead"}
      BY DEF Kept
    <3>1. e \in DOMAIN table /\ e # k /\ table[e] # table[k] /\ table[e] \in Slots
      BY <1>4, <1>5, LiveFacts DEF Filed
    <3>2. e \in DOMAIN table' /\ table'[e] = table[e]
      BY <2>1, <3>1 DEF Restrict
    <3>3. QED
      BY <1>1, <2>2, <3>1, <3>2, LiveFacts
  <2>7. QED
    BY <2>3, <2>5, <2>6 DEF WireInv
<1>6. CASE k # d /\ k \in Filed /\ ~Connected(d) /\ Refile(k, d, f)
  <2>1. /\ table' = File(Restrict(table, DOMAIN table \ {k}), d, table[k])
        /\ conn' = [x \in Slots |-> IF x = table[k] THEN [f[x] EXCEPT !.key = d]
                        ELSE IF d \in DOMAIN table /\ x = table[d] THEN NoConn ELSE f[x]]
        /\ k \in DOMAIN table
    BY <1>6 DEF Refile, Filed
  <2>2. Filing(table', conn')
    <3>1. k # d
      BY <1>6
    <3>2. QED
      BY <2>1, <3>1, RefileFiling
  <2>3. conn'[table[k]].key = d
    BY <1>4, <1>6, <2>1 DEF Conn
  <2>4. \A x \in Slots : x # table[k] => conn'[x] = NoConn \/ conn'[x] = f[x]
    BY <2>1
  <2>5. Checked(conn')
    BY <1>2, <1>4, <1>6, <2>3, <2>4 DEF Checked
  <2>6. Kept
    <3> SUFFICES ASSUME NEW e \in Device, Live(e)
                 PROVE  e \in DOMAIN table' /\ table'[e] = table[e]
                        /\ conn'[table[e]].phase \in {"up", "dead"}
      BY DEF Kept
    <3>1. e \in DOMAIN table /\ e # k /\ table[e] # table[k] /\ table[e] \in Slots
      BY <1>4, <1>6, LiveFacts DEF Filed
    <3>2. e # d
      BY <1>6 DEF Live, Connected
    <3>3. d \in DOMAIN table => table[e] # table[d]
      BY <3>1, <3>2 DEF WireInv, Filing
    <3>4. e \in DOMAIN table' /\ table'[e] = table[e]
      BY <2>1, <3>1, <3>2 DEF Restrict, File
    <3>5. conn'[table[e]] = f[table[e]]
      BY <2>1, <3>1, <3>3
    <3>6. QED
      BY <1>1, <3>4, <3>5, LiveFacts
  <2>7. QED
    BY <2>2, <2>5, <2>6 DEF WireInv
<1>7. QED
  BY <1>3, <1>5, <1>6 DEF Adopt

LEMMA AdoptByAddrKeeps ==
  ASSUME WireInv, NEW a \in Addr, NEW d \in Device, Home[a] = d, AdoptByAddr(a, d)
  PROVE  WireInv' /\ Kept
<1>1. CASE UNCHANGED wire
  BY <1>1, UnchangedKeeps
<1>2. CASE d \notin Filed /\ \E k \in Filed : conn[table[k]].addr = a /\ Refile(k, d, conn)
  <2>1. PICK k \in Filed : conn[table[k]].addr = a /\ Refile(k, d, conn)
    BY <1>2
  <2>2. k # d /\ k \in DOMAIN table
    BY <1>2 DEF Filed
  <2>3. table[k] \in Slots /\ conn[table[k]] # NoConn /\ conn[table[k]].key = k
    BY <2>2 DEF WireInv, Filing
  <2>4. DeviceAt(k) = d
    BY <2>1, <2>3 DEF WireInv, Filing
  <2>5. ~Connected(d)
    BY <1>2 DEF Connected
  <2>6. CASE conn[table[k]].phase # "up"
    <3>1. Adopt(k, d, conn)
      BY <2>1, <2>2, <2>5 DEF Adopt, Filed
    <3>2. Filing(table, conn)
      BY DEF WireInv
    <3>3. QED
      BY <2>3, <2>4, <2>6, <3>1, <3>2, AdoptKeeps
  <2>7. CASE conn[table[k]].phase = "up"
    <3>1. k \in Device
      BY <2>3, <2>2, <2>7 DEF WireInv, Filing, Checked
    <3>2. QED
      BY <2>2, <2>4, <3>1 DEF DeviceAt
  <2>8. QED
    BY <2>6, <2>7
<1>3. QED
  BY <1>1, <1>2 DEF AdoptByAddr

LEMMA LostKeeps ==
  ASSUME WireInv, NEW A, Lost(A), UNCHANGED table
  PROVE  WireInv' /\ Kept
<1>1. ASSUME NEW x \in Slots
      PROVE  /\ conn'[x] \in Conn \cup {NoConn}
             /\ conn[x] = NoConn <=> conn'[x] = NoConn
             /\ conn'[x].key = conn[x].key /\ conn'[x].addr = conn[x].addr
             /\ conn'[x].closed = conn[x].closed
             /\ \/ conn'[x].phase = conn[x].phase
                \/ conn[x].phase = "up" /\ conn'[x].phase = "dead"
  <2>1. conn[x] \in Conn \cup {NoConn}
    BY DEF WireInv, Filing
  <2>2. CASE conn[x].phase = "up" /\ conn[x].addr \in A
    <3>1. conn[x] \in Conn /\ conn'[x] = [conn[x] EXCEPT !.phase = "dead"]
      BY <2>1, <2>2, NoConnIsNone DEF Lost
    <3>2. conn'[x] \in Conn
      BY <3>1 DEF Conn, Phase
    <3>3. QED
      BY <2>2, <3>1, <3>2, NoConnIsNone DEF Conn
  <2>3. CASE ~(conn[x].phase = "up" /\ conn[x].addr \in A)
    <3>1. conn'[x] = conn[x]
      BY <2>3 DEF Lost
    <3>2. QED
      BY <2>1, <3>1
  <2>4. QED
    BY <2>2, <2>3
<1>2. conn' \in [Slots -> Conn \cup {NoConn}]
  <2>1. conn' = [x \in Slots |-> conn'[x]]
    BY DEF Lost
  <2>2. QED
    BY <1>1, <2>1
<1>3. Filing(table, conn')
  BY <1>1, <1>2 DEF WireInv, Filing
<1>4. Checked(conn')
  BY <1>1 DEF WireInv, Checked
<1>5. Kept
  BY <1>1, LiveFacts DEF Kept, Filed
<1>6. QED
  BY <1>3, <1>4, <1>5 DEF WireInv

(***************************************************************************)
(* Addresses.                                                              *)
(***************************************************************************)
(* What the environment, announces and Hellos say of an address is true. *)
AddrInv ==
  /\ \A a \in Addr : host[a] # Nobody => DeviceOf[host[a]] = Home[a]
  /\ \A i \in 1..Len(peers) : DeviceOf[peers[i][1]] = Home[peers[i][2]]
  /\ \A d \in Device : known[d] # Nobody => Home[known[d]] = d

IInv == TypeOK /\ AddrInv /\ WireInv

LEMMA HostFacts ==
  ASSUME IInv, NEW a \in Addr, host[a] # Nobody
  PROVE  host[a] \in Process /\ DeviceOf[host[a]] = Home[a] /\ Home[a] \in Device
  BY PeerConnsAssumption DEF IInv, TypeOK, EnvType, AddrInv

(***************************************************************************)
(* Every step keeps the table in order and the live connections.           *)
(***************************************************************************)
LEMMA HandshakeKeeps ==
  ASSUME IInv, NEW c \in Slots, Handshake(c)
  PROVE  WireInv' /\ Kept
<1> DEFINE k == conn[c].key
           a == conn[c].addr
           d == DeviceOf[host[a]]
           f == [conn EXCEPT ![c].phase = "checked"]
<1>1. conn[c].phase = "dial" /\ host[a] # Nobody /\ Adopt(k, d, f)
  BY DEF Handshake
<1>2. WireInv /\ "checked" \in Phase
  BY DEF IInv, Phase
<1>3. conn[c] # NoConn
  BY <1>1, NoConnIsNone
<1>4. a \in Addr /\ DeviceAt(k) = Home[a]
  BY <1>2, <1>3 DEF WireInv, Filing, Conn
<1>5. d \in Device /\ DeviceAt(k) = d
  BY <1>1, <1>4, HostFacts
<1>6. /\ Filing(table, f) /\ f[c] \in Conn /\ f[c].key = k
      /\ \A x \in Slots : x # c => f[x] = conn[x]
  BY <1>2, <1>3, PhaseFiling
<1>7. f[c] # NoConn /\ conn[c].phase # "up"
  BY <1>1, <1>6, NoConnIsNone
<1> HIDE DEF f, d, a, k
<1>8. QED
  BY <1>1, <1>2, <1>5, <1>6, <1>7, AdoptKeeps

(* A connection that is not up changes its phase, and ends if it has been closed. *)
LEMMA PhaseKeeps ==
  ASSUME WireInv, NEW c \in Slots, conn[c] # NoConn, conn[c].phase # "up", NEW p \in Phase,
         p \in {"checked", "up", "dead"} => conn[c].closed \/ conn[c].key \in Device,
         \/ conn' = [conn EXCEPT ![c].phase = p]
         \/ conn' = Ended(c, [conn EXCEPT ![c].phase = p]),
         UNCHANGED table
  PROVE  WireInv' /\ Kept
<1> DEFINE f == [conn EXCEPT ![c].phase = p]
<1>1. /\ Filing(table, f) /\ f[c] \in Conn /\ f[c].phase = p
      /\ f[c].closed = conn[c].closed /\ f[c].key = conn[c].key
      /\ \A x \in Slots : x # c => f[x] = conn[x]
  BY PhaseFiling
<1>2. conn' = f \/ conn' = Ended(c, f)
  OBVIOUS
<1> HIDE DEF f
<1>3. f[c] # NoConn
  BY <1>1, NoConnIsNone
<1>4. Filing(table, conn') /\ \A x \in Slots : conn'[x] = f[x] \/ conn'[x] = NoConn
  BY <1>1, <1>2, <1>3, EndFiling
<1>5. \A x \in Slots : x # c => conn'[x] = conn[x]
  <2>1. \A x \in Slots : x # c => conn'[x] = f[x]
    BY <1>1, <1>2 DEF Ended, Filing
  <2>2. QED
    BY <1>1, <2>1
<1>6. Checked(conn')
  BY <1>1, <1>4, <1>5 DEF WireInv, Checked
<1>7. Kept
  <2> SUFFICES ASSUME NEW d \in Device, Live(d)
               PROVE  d \in DOMAIN table' /\ table'[d] = table[d]
                      /\ conn'[table[d]].phase \in {"up", "dead"}
    BY DEF Kept
  <2>1. d \in DOMAIN table /\ table[d] \in Slots /\ conn[table[d]].phase = "up"
    BY LiveFacts DEF Filed
  <2>2. QED
    BY <1>5, <2>1
<1>8. QED
  BY <1>4, <1>6, <1>7 DEF WireInv

LEMMA RunsKeeps ==
  ASSUME IInv, NEW c \in Slots, Runs(c)
  PROVE  WireInv' /\ Kept
<1>1. WireInv
  BY DEF IInv
<1>2. CASE DialFails(c)
  <2>1. conn[c] # NoConn /\ conn[c].phase # "up" /\ "backoff" \in Phase
    BY <1>2, NoConnIsNone DEF DialFails, Phase
  <2>2. conn' = Ended(c, [conn EXCEPT ![c].phase = "backoff"]) /\ UNCHANGED table
    BY <1>2 DEF DialFails
  <2>3. QED
    BY <1>1, <2>1, <2>2, PhaseKeeps
<1>3. CASE Handshake(c)
  BY <1>3, HandshakeKeeps
<1>4. CASE Upgrade(c)
  <2> DEFINE p == IF Accepts(conn[c].addr) THEN "up" ELSE "backoff"
  <2>1. conn[c] # NoConn /\ conn[c].phase # "up" /\ conn[c].phase = "checked" /\ p \in Phase
    BY <1>4, NoConnIsNone DEF Upgrade, Phase
  <2>2. conn' = Ended(c, [conn EXCEPT ![c].phase = p]) /\ UNCHANGED table
    BY <1>4 DEF Upgrade
  <2>3. conn[c].closed \/ conn[c].key \in Device
    BY <1>1, <2>1 DEF WireInv, Checked, Filing, Conn
  <2> HIDE DEF p
  <2>4. QED
    BY <1>1, <2>1, <2>2, <2>3, PhaseKeeps
<1>5. CASE Breaks(c) \/ Retry(c)
  <2>1. conn[c] # NoConn /\ conn[c].phase # "up" /\ "dial" \in Phase
    BY <1>5, NoConnIsNone DEF Breaks, Retry, Phase
  <2>2. conn' = [conn EXCEPT ![c].phase = "dial"] /\ UNCHANGED table
    BY <1>5 DEF Breaks, Retry
  <2>3. QED
    BY <1>1, <2>1, <2>2, PhaseKeeps
<1>6. QED
  BY <1>2, <1>3, <1>4, <1>5 DEF Runs

LEMMA TrackKeeps ==
  ASSUME IInv, TrackPeer
  PROVE  WireInv' /\ Kept
<1>1. peers \in Seq(Announce) /\ peers # <<>> /\ WireInv
  BY DEF TrackPeer, IInv, TypeOK, DiscoveryType
<1>2. Head(peers) = peers[1] /\ peers[1] \in Announce /\ 1 \in 1..Len(peers)
  BY <1>1
<1>3. /\ peers[1][1] \in Process /\ peers[1][2] \in Addr
      /\ DeviceOf[peers[1][1]] = Home[peers[1][2]]
  BY <1>2 DEF Announce, IInv, AddrInv
<1>4. ConnectBySID(peers[1][1], peers[1][2])
  BY <1>2 DEF TrackPeer
<1>5. QED
  BY <1>1, <1>3, <1>4, ConnectBySIDKeeps

LEMMA DropPeerKeeps ==
  ASSUME IInv, NEW s \in Process, DropPeer(s)
  PROVE  WireInv' /\ Kept
<1>1. WireInv /\ s \notin Device
  BY PeerConnsAssumption DEF IInv
<1>2. CASE UNCHANGED wire
  BY <1>1, <1>2, UnchangedKeeps
<1>3. CASE s \in Filed /\ Drop(s, conn)
  <2> DEFINE x == table[s]
  <2>1. x \in Slots /\ conn[x] \in Conn /\ conn[x].key = s /\ s \in DOMAIN table
    BY <1>1, <1>3 DEF WireInv, Filing, Filed
  <2>2. /\ table' = Restrict(table, DOMAIN table \ {s}) /\ Filing(table, conn)
        /\ conn' \in [Slots -> Conn \cup {NoConn}] /\ conn'[x] = Closed(conn[x])
        /\ \A y \in Slots : y # x => conn'[y] = conn[y]
    BY <1>1, <1>3, <2>1, ClosedFacts DEF Drop, Filed, WireInv, Filing
  <2>3. x = table[s]
    OBVIOUS
  <2> HIDE DEF x
  <2>4. Filing(table', conn')
    BY <2>1, <2>2, <2>3, DropFiling
  <2>5. Checked(conn')
    BY <1>1, <2>1, <2>2, ClosedFacts DEF WireInv, Checked
  <2>6. Kept
    <3> SUFFICES ASSUME NEW d \in Device, Live(d)
                 PROVE  d \in DOMAIN table' /\ table'[d] = table[d]
                        /\ conn'[table[d]].phase \in {"up", "dead"}
      BY DEF Kept
    <3>1. /\ d \in DOMAIN table /\ table[d] \in Slots /\ conn[table[d]].phase = "up"
          /\ conn[table[d]].key = d
      BY <1>1, LiveFacts DEF Filed
    <3>2. d # s /\ table[d] # x
      BY <1>1, <2>1, <3>1
    <3>3. d \in DOMAIN table' /\ table'[d] = table[d]
      BY <2>2, <3>1, <3>2 DEF Restrict
    <3>4. QED
      BY <2>2, <3>1, <3>2, <3>3
  <2>7. QED
    BY <2>4, <2>5, <2>6 DEF WireInv
<1>4. QED
  BY <1>2, <1>3 DEF DropPeer

LEMMA MaintainsKeeps ==
  ASSUME IInv, NEW d \in Device, Maintains(d)
  PROVE  WireInv' /\ Kept
<1>1. PICK a \in Addr : /\ known[d] = a \/ Home[a] = d
                        /\ Connect(d, a)
  BY DEF Maintains
<1>2. WireInv /\ a # Nobody
  BY PeerConnsAssumption DEF IInv
<1>3. Home[a] = d
  BY <1>1, <1>2 DEF IInv, AddrInv
<1>4. QED
  BY <1>1, <1>2, <1>3, ConnectKeeps

(* All are closed: nothing is filed, and nothing is open. *)
LEMMA HideKeeps ==
  ASSUME IInv, Hide
  PROVE  WireInv'
<1>1. /\ table' = <<>>
      /\ conn' = [c \in Slots |-> IF c \in Range(table) THEN Closed(conn[c]) ELSE conn[c]]
  BY DEF Hide
<1>2. ASSUME NEW c \in Slots
      PROVE  /\ conn'[c] \in Conn \cup {NoConn}
             /\ conn'[c] # NoConn => /\ conn[c] # NoConn /\ conn'[c].closed
                                     /\ conn'[c].key = conn[c].key
                                     /\ conn'[c].addr = conn[c].addr
  <2>1. conn[c] \in Conn \cup {NoConn}
    BY DEF IInv, WireInv, Filing
  <2>2. CASE c \in Range(table)
    <3>1. conn[c] \in Conn
      BY <2>1, <2>2 DEF IInv, WireInv, Filing, Range
    <3>2. conn'[c] = Closed(conn[c])
      BY <1>1, <2>2
    <3>3. QED
      BY <3>1, <3>2, ClosedFacts, NoConnIsNone
  <2>3. CASE c \notin Range(table)
    <3>1. conn'[c] = conn[c]
      BY <1>1, <2>3
    <3>2. conn[c] # NoConn => conn[c].closed
      <4>1. conn[c] # NoConn /\ ~conn[c].closed => c \in Range(table)
        BY DEF IInv, WireInv, Filing, Range
      <4>2. QED
        BY <2>3, <4>1
    <3>3. conn[c] # NoConn => conn[c].closed = TRUE
      BY <2>1, <3>2 DEF Conn
    <3>4. QED
      BY <2>1, <3>1, <3>3
  <2>4. QED
    BY <2>2, <2>3
<1>3. conn' \in [Slots -> Conn \cup {NoConn}]
  BY <1>1, <1>2
<1>4. DOMAIN table' = {} /\ table' \in [{} -> Slots]
  BY <1>1
<1>5. Filing(table', conn')
  BY <1>2, <1>3, <1>4 DEF IInv, WireInv, Filing
<1>6. Checked(conn')
  BY <1>2 DEF Checked
<1>7. QED
  BY <1>5, <1>6 DEF WireInv

LEMMA StepKeeps ==
  ASSUME IInv, [Next]_vars
  PROVE  WireInv' /\ (foreground' => Kept)
<1> WireInv
  BY DEF IInv
<1>1. CASE \E c \in Slots : Runs(c)
  BY <1>1, RunsKeeps
<1>2. CASE \E s \in Process, a \in Addr : Hear(s, a) \/ Appear(s, a)
  <2>1. UNCHANGED wire
    BY <1>2 DEF Hear, Appear
  <2>2. QED
    BY <2>1, UnchangedKeeps
<1>3. CASE \E s \in Process : DropPeer(s)
  BY <1>3, DropPeerKeeps
<1>4. ASSUME NEW s \in Process, NEW m \in Mode, SetMode(s, m)
      PROVE  WireInv' /\ Kept
  <2>1. CASE UNCHANGED conn
    <3>1. UNCHANGED wire
      BY <1>4, <2>1 DEF SetMode
    <3>2. QED
      BY <3>1, UnchangedKeeps
  <2>2. CASE Lost({a \in Addr : host[a] = s})
    <3>1. UNCHANGED table
      BY <1>4 DEF SetMode
    <3>2. QED
      BY <2>2, <3>1, LostKeeps
  <2>3. QED
    BY <1>4, <2>1, <2>2 DEF SetMode
<1>5. ASSUME NEW a \in Addr, Receive(a) \/ OnHello(a) \/ Vanish(a)
      PROVE  WireInv' /\ Kept
  <2>1. Home[a] \in Device
    BY PeerConnsAssumption
  <2>2. CASE Receive(a)
    <3>1. AdoptByAddr(a, Home[a])
      BY <2>2 DEF Receive
    <3>2. QED
      BY <2>1, <3>1, AdoptByAddrKeeps
  <2>3. CASE OnHello(a)
    <3>1. Connect(Home[a], a)
      BY <2>3 DEF OnHello
    <3>2. QED
      BY <2>1, <3>1, ConnectKeeps
  <2>4. CASE Vanish(a)
    <3>1. Lost({a}) /\ UNCHANGED table
      BY <2>4 DEF Vanish
    <3>2. QED
      BY <3>1, LostKeeps
  <2>5. QED
    BY <1>5, <2>2, <2>3, <2>4
<1>6. CASE \E d \in Device : MaintainTick(d) \/ MaintainCall(d)
  <2>1. PICK d \in Device : Maintains(d)
    BY <1>6 DEF MaintainTick, MaintainCall
  <2>2. QED
    BY <2>1, MaintainsKeeps
<1>7. CASE Expire \/ Show \/ UNCHANGED vars
  <2>1. UNCHANGED wire
    BY <1>7 DEF Expire, Show, vars
  <2>2. QED
    BY <2>1, UnchangedKeeps
<1>8. CASE TrackPeer
  BY <1>8, TrackKeeps
<1>9. CASE Hide
  <2>1. foreground' = FALSE
    BY <1>9 DEF Hide
  <2>2. QED
    BY <1>9, <2>1, HideKeeps
<1>10. QED
  BY <1>1, <1>2, <1>3, <1>4, <1>5, <1>6, <1>7, <1>8, <1>9 DEF Next

(***************************************************************************)
(* The rest of the state, and the theorems.                                *)
(***************************************************************************)
LEMMA InitHolds ==
  ASSUME Init
  PROVE  IInv
<1>1. PICK start \in Starts : host = start.host /\ mode = start.mode /\ left = start.left
  BY DEF Init
<1>2. /\ start \in [host : [Addr -> Process \cup {Nobody}], mode : [Process -> Mode],
                    left : [Kind -> Nat]]
      /\ \A a \in Addr : host[a] # Nobody => DeviceOf[host[a]] = Home[a]
  BY <1>1, PeerConnsAssumption
<1>3. EnvType
  BY <1>1, <1>2 DEF Init, EnvType
<1>4. DiscoveryType
  <2>1. Cardinality({}) = 0
    BY FS_EmptySet
  <2>2. QED
    BY <2>1, PeerConnsAssumption DEF Init, DiscoveryType
<1>5. /\ DOMAIN table = {} /\ table \in [{} -> Slots]
      /\ conn \in [Slots -> Conn \cup {NoConn}] /\ \A c \in Slots : conn[c] = NoConn
  BY DEF Init
<1>6. WireType
  BY <1>5 DEF WireType
<1>7. AddrInv
  BY <1>2 DEF Init, AddrInv
<1>8. WireInv
  BY <1>5 DEF WireInv, Filing, Checked
<1>9. QED
  BY <1>3, <1>4, <1>6, <1>7, <1>8 DEF IInv, TypeOK

LEMMA SpendType ==
  ASSUME EnvType, NEW kind \in Kind, Spend(kind)
  PROVE  left' \in [Kind -> Nat]
  BY DEF EnvType, Spend

LEMMA EnvKeeps ==
  ASSUME IInv, [Next]_vars
  PROVE  /\ EnvType'
         /\ \A a \in Addr : host'[a] # Nobody => DeviceOf[host'[a]] = Home[a]
         /\ \A d \in Device : known'[d] # Nobody => Home[known'[d]] = d
<1> USE DEF env
<1>1. /\ EnvType
      /\ \A a \in Addr : host[a] # Nobody => DeviceOf[host[a]] = Home[a]
      /\ \A d \in Device : known[d] # Nobody => Home[known[d]] = d
  BY DEF IInv, TypeOK, AddrInv
<1>2. {"vanish", "appear", "mode", "hide", "hello", "call", "loss"} = Kind
  BY DEF Kind
<1>3. CASE UNCHANGED <<host, mode, foreground, hello, known, left>>
  BY <1>1, <1>3 DEF EnvType
<1>4. CASE \E c \in Slots : Runs(c)
  <2>1. UNCHANGED <<host, mode, foreground, hello, known, left>>
    BY <1>4 DEF Runs, DialFails, Handshake, Upgrade, Breaks, Retry
  <2>2. QED
    BY <1>3, <2>1
<1>5. ASSUME NEW s \in Process, NEW a \in Addr, Appear(s, a)
      PROVE  /\ EnvType'
             /\ \A b \in Addr : host'[b] # Nobody => DeviceOf[host'[b]] = Home[b]
             /\ \A d \in Device : known'[d] # Nobody => Home[known'[d]] = d
  <2>1. left' \in [Kind -> Nat]
    BY <1>1, <1>2, <1>5, SpendType DEF Appear
  <2>2. host' \in [Addr -> Process \cup {Nobody}]
        /\ \A b \in Addr : host'[b] # Nobody => DeviceOf[host'[b]] = Home[b]
    BY <1>1, <1>5 DEF Appear, EnvType
  <2>3. UNCHANGED <<mode, foreground, hello, known>>
    BY <1>5 DEF Appear
  <2>4. QED
    BY <1>1, <2>1, <2>2, <2>3 DEF EnvType
<1>6. ASSUME NEW s \in Process, NEW m \in Mode, SetMode(s, m)
      PROVE  /\ EnvType'
             /\ \A b \in Addr : host'[b] # Nobody => DeviceOf[host'[b]] = Home[b]
             /\ \A d \in Device : known'[d] # Nobody => Home[known'[d]] = d
  <2>1. left' \in [Kind -> Nat]
    BY <1>1, <1>2, <1>6, SpendType DEF SetMode
  <2>2. mode' \in [Process -> Mode]
    BY <1>1, <1>6 DEF SetMode, EnvType
  <2>3. UNCHANGED <<host, foreground, hello, known>>
    BY <1>6 DEF SetMode
  <2>4. QED
    BY <1>1, <2>1, <2>2, <2>3 DEF EnvType
<1>7. ASSUME NEW a \in Addr, Vanish(a)
      PROVE  /\ EnvType'
             /\ \A b \in Addr : host'[b] # Nobody => DeviceOf[host'[b]] = Home[b]
             /\ \A d \in Device : known'[d] # Nobody => Home[known'[d]] = d
  <2>1. left' \in [Kind -> Nat]
    BY <1>1, <1>2, <1>7, SpendType DEF Vanish
  <2>2. host' \in [Addr -> Process \cup {Nobody}]
        /\ \A b \in Addr : host'[b] # Nobody => DeviceOf[host'[b]] = Home[b]
    BY <1>1, <1>7 DEF Vanish, EnvType
  <2>3. UNCHANGED <<mode, foreground, hello, known>>
    BY <1>7 DEF Vanish
  <2>4. QED
    BY <1>1, <2>1, <2>2, <2>3 DEF EnvType
<1>8. ASSUME NEW a \in Addr, Receive(a)
      PROVE  EnvType' /\ UNCHANGED <<host, known>>
  <2>1. left' \in [Kind -> Nat]
    BY <1>1, <1>2, <1>8, SpendType DEF Receive
  <2>2. hello' \subseteq Addr
    BY <1>1, <1>8 DEF Receive, EnvType
  <2>3. UNCHANGED <<host, mode, foreground, known>>
    BY <1>8 DEF Receive
  <2>4. QED
    BY <1>1, <2>1, <2>2, <2>3 DEF EnvType
<1>9. ASSUME NEW a \in Addr, OnHello(a)
      PROVE  /\ EnvType' /\ UNCHANGED host
             /\ \A d \in Device : known'[d] # Nobody => Home[known'[d]] = d
  <2>1. known' \in [Device -> Addr \cup {Nobody}]
        /\ \A d \in Device : known'[d] # Nobody => Home[known'[d]] = d
    BY <1>1, <1>9 DEF OnHello, EnvType
  <2>2. hello' \subseteq Addr
    BY <1>1, <1>9 DEF OnHello, EnvType
  <2>3. UNCHANGED <<host, mode, foreground, left>>
    BY <1>9 DEF OnHello
  <2>4. QED
    BY <1>1, <2>1, <2>2, <2>3 DEF EnvType
<1>10. CASE \E d \in Device : MaintainTick(d) \/ MaintainCall(d)
  <2>1. left' \in [Kind -> Nat] /\ UNCHANGED <<host, mode, foreground, hello, known>>
    <3>1. CASE \E d \in Device : MaintainTick(d)
      BY <1>1, <3>1 DEF MaintainTick, EnvType
    <3>2. CASE \E d \in Device : MaintainCall(d)
      BY <1>1, <1>2, <3>2, SpendType DEF MaintainCall
    <3>3. QED
      BY <1>10, <3>1, <3>2
  <2>2. QED
    BY <1>1, <2>1 DEF EnvType
<1>11. CASE Hide \/ Show \/ Expire
  <2>1. UNCHANGED <<host, mode, hello, known>> /\ foreground' \in BOOLEAN
    BY <1>1, <1>11 DEF Hide, Show, Expire, EnvType
  <2>2. left' \in [Kind -> Nat]
    <3>1. left' = left \/ \E kind \in Kind : Spend(kind)
      BY <1>2, <1>11 DEF Hide, Show, Expire
    <3>2. QED
      BY <1>1, <3>1, SpendType DEF EnvType
  <2>3. QED
    BY <1>1, <2>1, <2>2 DEF EnvType
<1>12. CASE \/ TrackPeer \/ UNCHANGED vars
            \/ \E s \in Process : DropPeer(s) \/ \E a \in Addr : Hear(s, a)
  <2>1. UNCHANGED <<host, mode, foreground, hello, known, left>>
    BY <1>12 DEF TrackPeer, DropPeer, Hear, vars
  <2>2. QED
    BY <1>3, <2>1
<1>13. QED
  BY <1>1, <1>4, <1>5, <1>6, <1>7, <1>8, <1>9, <1>10, <1>11, <1>12 DEF Next

LEMMA DiscoveryKeeps ==
  ASSUME IInv, [Next]_vars
  PROVE  /\ DiscoveryType'
         /\ \A i \in 1..Len(peers') : DeviceOf[peers'[i][1]] = Home[peers'[i][2]]
<1>1. /\ DiscoveryType
      /\ \A i \in 1..Len(peers) : DeviceOf[peers[i][1]] = Home[peers[i][2]]
  BY DEF IInv, TypeOK, AddrInv
<1>2. ASSUME NEW s \in Process, NEW a \in Addr, Hear(s, a)
      PROVE  /\ DiscoveryType'
             /\ \A i \in 1..Len(peers') : DeviceOf[peers'[i][1]] = Home[peers'[i][2]]
  <2>1. DeviceOf[s] = Home[a] /\ <<s, a>> \in Announce
    BY <1>2, PeerConnsAssumption, HostFacts DEF Hear, Announce
  <2>2. lastSeen' \in [Process -> 0..Grace \cup {Nobody}] /\ gone' = gone
    <3>1. 0 \in 0..Grace
      BY PeerConnsAssumption
    <3>2. QED
      BY <1>1, <1>2, <3>1 DEF Hear, DiscoveryType
  <2>3. CASE peers' = peers
    BY <1>1, <2>2, <2>3 DEF DiscoveryType
  <2>4. CASE Len(peers) < PeersCap /\ peers' = Append(peers, <<s, a>>)
    <3>1. /\ peers \in Seq(Announce) /\ peers' \in Seq(Announce)
          /\ Len(peers') = Len(peers) + 1 /\ peers'[Len(peers) + 1] = <<s, a>>
          /\ \A i \in 1..Len(peers) : peers'[i] = peers[i]
      BY <1>1, <2>1, <2>4 DEF DiscoveryType
    <3>2. Len(peers') <= PeersCap
      BY <2>4, <3>1, PeerConnsAssumption
    <3>3. \A i \in 1..Len(peers') : i \in 1..Len(peers) \/ i = Len(peers) + 1
      BY <3>1
    <3>4. \A i \in 1..Len(peers') : DeviceOf[peers'[i][1]] = Home[peers'[i][2]]
      BY <1>1, <2>1, <3>1, <3>3
    <3>5. QED
      BY <1>1, <2>2, <3>1, <3>2, <3>4 DEF DiscoveryType
  <2>5. QED
    BY <1>2, <2>3, <2>4 DEF Hear
<1>3. CASE Expire
  <2>1. PICK told \in SUBSET Process :
          /\ Delivers(told) /\ gone' = told
          /\ lastSeen' = [s \in Process |->
               IF s \in Forgotten(told) \/ lastSeen[s] = Nobody THEN Nobody
               ELSE IF s \in Silent THEN Grace ELSE lastSeen[s] + 1]
    BY <1>3 DEF Expire
  <2>2. ASSUME NEW s \in Process
        PROVE  lastSeen'[s] \in 0..Grace \cup {Nobody}
    <3>1. lastSeen[s] \in 0..Grace \cup {Nobody} /\ Grace \in Nat
      BY <1>1, PeerConnsAssumption DEF DiscoveryType
    <3>2. s \in Silent <=> lastSeen[s] = Grace
      BY DEF Silent
    <3>3. lastSeen[s] # Nobody /\ lastSeen[s] # Grace => lastSeen[s] + 1 \in 0..Grace
      BY <3>1
    <3>4. Grace \in 0..Grace
      BY <3>1
    <3>5. QED
      BY <2>1, <3>2, <3>3, <3>4
  <2>3. lastSeen' \in [Process -> 0..Grace \cup {Nobody}]
    BY <2>1, <2>2
  <2>4. peers' = peers
    BY <1>3 DEF Expire
  <2>5. QED
    BY <1>1, <2>1, <2>3, <2>4 DEF DiscoveryType, Delivers
<1>4. CASE TrackPeer
  <2>1. peers \in Seq(Announce) /\ peers # <<>> /\ peers' = Tail(peers)
        /\ lastSeen' = lastSeen /\ gone' = gone
    BY <1>1, <1>4 DEF TrackPeer, DiscoveryType
  <2>2. /\ peers' \in Seq(Announce) /\ Len(peers') = Len(peers) - 1 /\ Len(peers) \in Nat
        /\ \A i \in 1..Len(peers') : peers'[i] = peers[i + 1] /\ i + 1 \in 1..Len(peers)
    BY <2>1
  <2>3. Len(peers') <= PeersCap
    BY <1>1, <2>2, PeerConnsAssumption DEF DiscoveryType
  <2>4. QED
    BY <1>1, <2>1, <2>2, <2>3 DEF DiscoveryType
<1>5. ASSUME NEW s \in Process, DropPeer(s)
      PROVE  /\ DiscoveryType'
             /\ \A i \in 1..Len(peers') : DeviceOf[peers'[i][1]] = Home[peers'[i][2]]
  <2>1. gone' = gone \ {s} /\ peers' = peers /\ lastSeen' = lastSeen
    BY <1>5 DEF DropPeer
  <2>2. IsFiniteSet(gone)
    BY <1>1, PeerConnsAssumption, FS_Subset DEF DiscoveryType
  <2>3. Cardinality(gone') <= Cardinality(gone) /\ Cardinality(gone') \in Nat
        /\ Cardinality(gone) \in Nat
    BY <2>1, <2>2, FS_Subset, FS_CardinalityType
  <2>4. Cardinality(gone') <= GoneCap
    BY <1>1, <2>3, PeerConnsAssumption DEF DiscoveryType
  <2>5. QED
    BY <1>1, <2>1, <2>4 DEF DiscoveryType
<1>6. CASE UNCHANGED discovery
  BY <1>1, <1>6 DEF DiscoveryType
<1>7. CASE \E c \in Slots : Runs(c)
  <2>1. UNCHANGED discovery
    BY <1>7 DEF Runs, DialFails, Handshake, Upgrade, Breaks, Retry
  <2>2. QED
    BY <1>6, <2>1
<1>8. CASE \/ Hide \/ Show \/ UNCHANGED vars
           \/ \E d \in Device : MaintainTick(d) \/ MaintainCall(d)
           \/ \E a \in Addr : Receive(a) \/ OnHello(a) \/ Vanish(a)
           \/ \E s \in Process :
                \/ \E a \in Addr : Appear(s, a)
                \/ \E m \in Mode : SetMode(s, m)
  <2>1. UNCHANGED discovery
    BY <1>8 DEF Hide, Show, vars, MaintainTick, MaintainCall, Receive, OnHello, Vanish,
                Appear, SetMode
  <2>2. QED
    BY <1>6, <2>1
<1>9. QED
  BY <1>2, <1>3, <1>4, <1>5, <1>7, <1>8 DEF Next

LEMMA WireTyped ==
  ASSUME WireInv
  PROVE  WireType /\ FiledRight
<1>1. WireType
  BY DEF WireInv, Filing, WireType
<1>2. ASSUME NEW k \in Filed
      PROVE  /\ conn[table[k]] # NoConn /\ ~conn[table[k]].closed /\ conn[table[k]].key = k
             /\ Connected(k) => k = Home[conn[table[k]].addr]
  <2>1. /\ table[k] \in Slots /\ conn[table[k]] # NoConn /\ ~conn[table[k]].closed
        /\ conn[table[k]].key = k /\ DeviceAt(k) = Home[conn[table[k]].addr]
    BY DEF WireInv, Filing, Filed
  <2>2. Connected(k) => k \in Device
    BY <2>1 DEF Connected, WireInv, Checked
  <2>3. QED
    BY <2>1, <2>2 DEF DeviceAt
<1>3. QED
  BY <1>1, <1>2 DEF FiledRight

LEMMA StepHolds == IInv /\ [Next]_vars => IInv'
<1> SUFFICES ASSUME IInv, [Next]_vars
             PROVE  IInv'
  OBVIOUS
<1>1. WireInv'
  BY StepKeeps
<1>2. WireType'
  BY <1>1 DEF WireInv, Filing, WireType
<1>3. EnvType' /\ DiscoveryType' /\ AddrInv'
  BY EnvKeeps, DiscoveryKeeps DEF AddrInv
<1>4. QED
  BY <1>1, <1>2, <1>3 DEF IInv, TypeOK

LEMMA InvHolds == Spec => []IInv
<1>1. Init => IInv
  BY InitHolds
<1>2. QED
  BY <1>1, StepHolds, PTL DEF Spec

(* Variables stay within their types: the channels within their capacities, connections
   in slots, keys known (hub.go, service.go).                                          *)
THEOREM TypeCorrect == Spec => []TypeOK
<1>1. IInv => TypeOK
  BY DEF IInv
<1>2. QED
  BY <1>1, InvHolds, PTL

(* Whatever is announced, redialed and adopted, a connection of the table is open, is filed
   under the key it knows and, once connected, under the device it reaches (adoptConn).    *)
THEOREM FiledIsRight == Spec => []FiledRight
<1>1. IInv => FiledRight
  BY WireTyped DEF IInv
<1>2. QED
  BY <1>1, InvHolds, PTL

(* No announce, Hello, expiry or adoption takes a live connection from its device
   (Connect, ConnectBySID, adoptConn).                                           *)
THEOREM LiveIsKept == Spec => LiveStays
<1>1. IInv /\ [Next]_vars =>
        [\A d \in Device : Live(d) /\ foreground' =>
           /\ d \in DOMAIN table'
           /\ table'[d] = table[d]
           /\ conn'[table[d]].phase \in {"up", "dead"}]_vars
  BY StepKeeps DEF Kept
<1>2. QED
  BY <1>1, InvHolds, PTL DEF Spec, LiveStays

=============================================================================
