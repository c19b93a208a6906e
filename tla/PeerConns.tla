----------------------------- MODULE PeerConns -----------------------------
(***************************************************************************)
(* The outbound connections of one node: which peers its discovery hears   *)
(* (discovery/service.go) and its table of connections (peerwire/hub.go,   *)
(* conn.go).                                                               *)
(*                                                                         *)
(* A peer is found by an announce that carries the session ID (SID) of a   *)
(* process; a connection is filed under that SID until its TLS handshake   *)
(* tells the device, and under the device from then on.  Connections are   *)
(* also opened by a peer's own Hello and by MaintainConnections.  Whatever *)
(* the hub does under h.mu is one step.                                    *)
(*                                                                         *)
(* The peers are the environment: a process starts, vanishes from the      *)
(* network, hides, or stays visible without announcing.  An address stays  *)
(* with one device.                                                        *)
(***************************************************************************)
EXTENDS Naturals, Sequences, FiniteSets, Functions

CONSTANTS
  Process,     \* the processes peers run, each with a SID of its own
  Device,
  Addr,
  DeviceOf,    \* the device a process runs on
  Home,        \* the device an address belongs to
  Paired,      \* the devices this node trusts
  Nobody,
  Slots,       \* bound: connections that have not ended
  Grace,       \* expiry intervals a SID may be silent
  PeersCap, GoneCap,   \* capacities of the channels Peers and PeerGone
  Starts       \* where a behaviour may start, and as bounds how many events of each kind
               \* there may be

Kind == {"vanish", "appear", "mode", "hide", "hello", "call", "loss"}

Mode == {"hidden", "quiet", "announcing"}   \* hidden: rejects connections as well

ASSUME PeerConnsAssumption ==
  /\ DeviceOf \in [Process -> Device]
  /\ Home \in [Addr -> Device]
  /\ Paired \subseteq Device
  /\ Nobody \notin Process \cup Device \cup Addr
  /\ Process \cap Device = {} /\ IsFiniteSet(Process)
  /\ Grace \in Nat /\ PeersCap \in Nat \ {0} /\ GoneCap \in Nat \ {0}
  /\ Starts \subseteq [host : [Addr -> Process \cup {Nobody}], mode : [Process -> Mode],
                       left : [Kind -> Nat]]
  /\ \A start \in Starts, a \in Addr :
       start.host[a] # Nobody => DeviceOf[start.host[a]] = Home[a]

VARIABLES
  host,        \* host[a]: the process that answers at a
  mode,        \* mode[s]: what the process s does
  foreground,  \* the UI of this node is open
  lastSeen,    \* lastSeen[s]: intervals since s was heard; Nobody without an entry
  peers,       \* channel Peers: announces
  gone,        \* channel PeerGone: SIDs, in any order
  hello,       \* addresses a Hello has come from, before onHello
  known,       \* state.peers: the address of a device's last Hello
  table,       \* hub.conns: key |-> connection
  conn,        \* conn[c]: a connection that has not ended, or NoConn
  left         \* what is left of the budget

env       == <<host, mode>>
discovery == <<lastSeen, peers, gone>>
inbound   == <<hello, known>>
wire      == <<table, conn>>
vars      == <<env, foreground, discovery, inbound, wire, left>>

Key   == Process \cup Device
(* dial: the next dial's handshake is ahead; checked: the handshake is done, the
   upgrade is ahead; dead: the peer is gone, the connection does not know yet.  *)
Phase == {"dial", "checked", "up", "dead", "backoff"}
Conn  == [key : Key, addr : Addr, phase : Phase, closed : BOOLEAN]
NoConn == [key |-> Nobody, addr |-> Nobody, phase |-> "backoff", closed |-> TRUE]
Announce == Process \X Addr

EnvType ==
  /\ host \in [Addr -> Process \cup {Nobody}] /\ mode \in [Process -> Mode]
  /\ foreground \in BOOLEAN /\ left \in [Kind -> Nat]
  /\ hello \subseteq Addr /\ known \in [Device -> Addr \cup {Nobody}]

DiscoveryType ==
  /\ lastSeen \in [Process -> 0..Grace \cup {Nobody}]
  /\ peers \in Seq(Announce) /\ Len(peers) <= PeersCap
  /\ gone \subseteq Process /\ Cardinality(gone) <= GoneCap

WireType ==
  /\ DOMAIN table \subseteq Key /\ table \in [DOMAIN table -> Slots]
  /\ conn \in [Slots -> Conn \cup {NoConn}]

TypeOK == EnvType /\ DiscoveryType /\ WireType

Init ==
  /\ \E start \in Starts :
       host = start.host /\ mode = start.mode /\ left = start.left
  /\ foreground = TRUE
  /\ lastSeen = [s \in Process |-> Nobody]
  /\ peers = <<>> /\ gone = {}
  /\ hello = {} /\ known = [d \in Device |-> Nobody]
  /\ table = <<>> /\ conn = [c \in Slots |-> NoConn]

Spend(kind) == left[kind] > 0 /\ left' = [left EXCEPT ![kind] = @ - 1]

Filed == DOMAIN table

(* connected: true from the upgrade until the drop is noticed. *)
Connected(k) == k \in Filed /\ conn[table[k]].phase \in {"up", "dead"}

Accepts(a) == host[a] # Nobody /\ mode[host[a]] # "hidden"

(***************************************************************************)
(* The table.                                                              *)
(***************************************************************************)
(* close: a dialing connection ends when its dial has, any other at once. *)
Closed(r) == IF r.phase \in {"dial", "checked"} THEN [r EXCEPT !.closed = TRUE] ELSE NoConn

(* nudge: the backoff ends. *)
Nudge(c) ==
  /\ conn' = [conn EXCEPT ![c].phase = IF @ = "backoff" THEN "dial" ELSE @]
  /\ UNCHANGED table

(* t with c filed under k. *)
File(t, k, c) == [x \in DOMAIN t \cup {k} |-> IF x = k THEN c ELSE t[x]]

(* A new connection under k, in place of the one there. *)
Replace(k, a) ==
  LET others == IF k \in Filed THEN [conn EXCEPT ![table[k]] = Closed(@)] ELSE conn
      free   == {c \in Slots : others[c] = NoConn}
      new    == CHOOSE c \in free : TRUE
  IN /\ free # {}
     /\ conn' = [others EXCEPT ![new] =
                   [key |-> k, addr |-> a, phase |-> "dial", closed |-> FALSE]]
     /\ table' = File(table, k, new)

(* Mutant: a new address takes the place of a live connection. *)
ConnectAnyway(d, a) ==
  IF d \in Filed /\ conn[table[d]].addr = a THEN Nudge(table[d]) ELSE Replace(d, a)

(* A live connection is never interrupted. *)
Connect(d, a) ==
  \/ Connected(d) /\ UNCHANGED wire
  \/ ~Connected(d) /\ d \in Filed /\ conn[table[d]].addr = a /\ Nudge(table[d])
  \/ /\ ~Connected(d)
     /\ d \in Filed => conn[table[d]].addr # a
     /\ Replace(d, a)

ConnectBySID(s, a) ==
  LET same == {c \in Range(table) : conn[c].addr = a}
  IN \/ Connected(s) /\ UNCHANGED wire
     \/ ~Connected(s) /\ \E c \in same : Nudge(c)
     \/ ~Connected(s) /\ same = {} /\ Replace(s, a)

(* Close what is filed under k and forget it.  f: the connections so far. *)
Drop(k, f) ==
  /\ table' = Restrict(table, Filed \ {k})
  /\ conn' = [f EXCEPT ![table[k]] = Closed(@)]

(* Mutant: it keeps the key it had. *)
RefileUnderOldKey(k, d, f) ==
  /\ table' = File(Restrict(table, Filed \ {k}), d, table[k])
  /\ conn' = [c \in Slots |-> IF d \in Filed /\ c = table[d] THEN NoConn ELSE f[c]]

(* The connection filed under k goes to d, in place of one that is down.  That one is
   not closed: its goroutine goes on outside the table.  As its key is d already it
   touches the table no more, and is not followed any further.                       *)
Refile(k, d, f) ==
  /\ table' = File(Restrict(table, Filed \ {k}), d, table[k])
  /\ conn' = [c \in Slots |->
                IF c = table[k] THEN [f[c] EXCEPT !.key = d]
                ELSE IF d \in Filed /\ c = table[d] THEN NoConn
                ELSE f[c]]

(* Mutant: the one that is down keeps its place. *)
AdoptBehindAny(k, d, f) ==
  \/ (k = d \/ k \notin Filed) /\ conn' = f /\ UNCHANGED table
  \/ k # d /\ k \in Filed /\ d \in Filed /\ Drop(k, f)
  \/ k # d /\ k \in Filed /\ d \notin Filed /\ Refile(k, d, f)

(* adoptConn *)
Adopt(k, d, f) ==
  \/ (k = d \/ k \notin Filed) /\ conn' = f /\ UNCHANGED table
  \/ k # d /\ k \in Filed /\ Connected(d) /\ Drop(k, f)
  \/ k # d /\ k \in Filed /\ ~Connected(d) /\ Refile(k, d, f)

(* adoptConnByAddr *)
AdoptByAddr(a, d) ==
  LET at == {k \in Filed : conn[table[k]].addr = a}
  IN IF d \in Filed \/ at = {} THEN UNCHANGED wire ELSE \E k \in at : Refile(k, d, conn)

(***************************************************************************)
(* A connection's goroutine.                                               *)
(***************************************************************************)
Ended(c, f) == IF f[c].closed THEN [f EXCEPT ![c] = NoConn] ELSE f

(* Nobody answers the dial. *)
DialFails(c) ==
  /\ conn[c].phase = "dial" /\ host[conn[c].addr] = Nobody
  /\ conn' = Ended(c, [conn EXCEPT ![c].phase = "backoff"])
  /\ UNCHANGED <<env, foreground, discovery, inbound, table, left>>

(* The certificate tells the device, also to a connection that has been closed. *)
Handshake(c) ==
  LET process == host[conn[c].addr]
  IN /\ conn[c].phase = "dial" /\ process # Nobody
     /\ Adopt(conn[c].key, DeviceOf[process], [conn EXCEPT ![c].phase = "checked"])
     /\ UNCHANGED <<env, foreground, discovery, inbound, left>>

(* The peer upgrades the connection, or refuses to as it is hidden. *)
Upgrade(c) ==
  /\ conn[c].phase = "checked"
  /\ conn' = Ended(c, [conn EXCEPT ![c].phase = IF Accepts(conn[c].addr) THEN "up"
                                                ELSE "backoff"])
  /\ UNCHANGED <<env, foreground, discovery, inbound, table, left>>

(* The read loop ends, and the connection dials again at once. *)
Breaks(c) ==
  /\ conn[c].phase = "dead"
  /\ conn' = [conn EXCEPT ![c].phase = "dial"]
  /\ UNCHANGED <<env, foreground, discovery, inbound, table, left>>

Retry(c) ==
  /\ conn[c] # NoConn /\ conn[c].phase = "backoff"
  /\ conn' = [conn EXCEPT ![c].phase = "dial"]
  /\ UNCHANGED <<env, foreground, discovery, inbound, table, left>>

(***************************************************************************)
(* Discovery.                                                              *)
(***************************************************************************)
(* An announce that finds Peers full is not forwarded. *)
Hear(s, a) ==
  /\ host[a] = s /\ mode[s] = "announcing"
  /\ lastSeen' = [lastSeen EXCEPT ![s] = 0]
  /\ peers' = IF foreground /\ Len(peers) < PeersCap THEN Append(peers, <<s, a>>) ELSE peers
  /\ UNCHANGED <<env, foreground, gone, inbound, wire, left>>

Silent == {s \in Process : lastSeen[s] = Grace}

(* Mutant: all are delivered. *)
DeliversAll(told) == told = Silent

(* PeerGone takes what fits. *)
Delivers(told) ==
  /\ told \subseteq Silent /\ Cardinality(told) <= GoneCap
  /\ told = Silent \/ Cardinality(told) = GoneCap

(* Mutant: what does not fit is forgotten as well. *)
ForgottenAnyway(told) == Silent

(* What did not fit is kept for the next interval. *)
Forgotten(told) == told

Announcing(s) == mode[s] = "announcing" /\ \E a \in Addr : host[a] = s

(* An interval passes.  Those who take from the channels are not an interval behind;
   that so many announces in a row are lost is an event.                             *)
Expire ==
  /\ peers = <<>> /\ gone = {}
  /\ IF \E s \in Silent : Announcing(s) THEN Spend("loss") ELSE UNCHANGED left
  /\ \E told \in SUBSET Process :
       /\ Delivers(told)
       /\ gone' = told
       /\ lastSeen' = [s \in Process |->
            IF s \in Forgotten(told) \/ lastSeen[s] = Nobody THEN Nobody
            ELSE IF s \in Silent THEN Grace ELSE lastSeen[s] + 1]
  /\ UNCHANGED <<env, foreground, peers, inbound, wire>>

(* TrackPeer: it does not ask whether the node is in the foreground. *)
TrackPeer ==
  /\ peers # <<>>
  /\ ConnectBySID(Head(peers)[1], Head(peers)[2])
  /\ peers' = Tail(peers)
  /\ UNCHANGED <<env, foreground, lastSeen, gone, inbound, left>>

(* DropPeer, DropUntrustedSID: what is still filed under a SID is of no known device. *)
DropPeer(s) ==
  /\ s \in gone
  /\ IF s \in Filed THEN Drop(s, conn) ELSE UNCHANGED wire
  /\ gone' = gone \ {s}
  /\ UNCHANGED <<env, foreground, lastSeen, peers, inbound, left>>

(***************************************************************************)
(* What peers and the API make of the table.                               *)
(***************************************************************************)
(* A peer's Hello arrives; readInbound files its connection, then onHello connects back. *)
Receive(a) ==
  /\ foreground /\ Accepts(a) /\ a \notin hello /\ Spend("hello")
  /\ AdoptByAddr(a, Home[a])
  /\ hello' = hello \cup {a}
  /\ UNCHANGED <<env, foreground, discovery, known>>

OnHello(a) ==
  /\ a \in hello
  /\ Connect(Home[a], a)
  /\ hello' = hello \ {a}
  /\ known' = [known EXCEPT ![Home[a]] = a]
  /\ UNCHANGED <<env, foreground, discovery, left>>

(* The address is that of the last Hello, else Syncthing's. *)
Maintains(d) ==
  \E a \in Addr : /\ known[d] = a \/ (known[d] = Nobody /\ Home[a] = d /\ host[a] # Nobody)
                  /\ Connect(d, a)

(* The ticker's 30 s outlast a dial. *)
MaintainTick(d) ==
  /\ foreground /\ d \in Paired
  /\ d \in Filed => conn[table[d]].phase \notin {"dial", "checked"}
  /\ Maintains(d)
  /\ UNCHANGED <<env, foreground, discovery, inbound, left>>

(* The UI opens or a peer accepts, at any time. *)
MaintainCall(d) ==
  /\ foreground /\ d \in Paired /\ Spend("call")
  /\ Maintains(d)
  /\ UNCHANGED <<env, foreground, discovery, inbound>>

(* SetForeground; DisconnectAll. *)
Hide ==
  /\ foreground /\ Spend("hide")
  /\ foreground' = FALSE
  /\ table' = <<>>
  /\ conn' = [c \in Slots |-> IF c \in Range(table) THEN Closed(conn[c]) ELSE conn[c]]
  /\ UNCHANGED <<env, discovery, inbound>>

Show ==
  /\ ~foreground
  /\ foreground' = TRUE
  /\ UNCHANGED <<env, discovery, inbound, wire, left>>

(***************************************************************************)
(* The network and the peers.                                              *)
(***************************************************************************)
(* Connections to an address that no longer serves them are dead. *)
Lost(A) == conn' = [c \in Slots |-> IF conn[c].phase = "up" /\ conn[c].addr \in A
                                    THEN [conn[c] EXCEPT !.phase = "dead"] ELSE conn[c]]

Vanish(a) ==
  /\ host[a] # Nobody /\ Spend("vanish")
  /\ host' = [host EXCEPT ![a] = Nobody]
  /\ Lost({a})
  /\ UNCHANGED <<mode, foreground, discovery, inbound, table>>

(* A device runs one process at a time. *)
Appear(s, a) ==
  /\ host[a] = Nobody /\ Home[a] = DeviceOf[s] /\ Spend("appear")
  /\ \A b \in Addr : host[b] \notin {s, Nobody} => DeviceOf[host[b]] # DeviceOf[s]
  /\ host' = [host EXCEPT ![a] = s]
  /\ UNCHANGED <<mode, foreground, discovery, inbound, wire>>

SetMode(s, m) ==
  /\ mode[s] # m /\ Spend("mode")
  /\ mode' = [mode EXCEPT ![s] = m]
  /\ IF m = "hidden" THEN Lost({a \in Addr : host[a] = s}) ELSE UNCHANGED conn
  /\ UNCHANGED <<host, foreground, discovery, inbound, table>>

(* What the goroutine of a connection does next. *)
Runs(c) == DialFails(c) \/ Handshake(c) \/ Upgrade(c) \/ Breaks(c) \/ Retry(c)

Next ==
  \/ \E c \in Slots : Runs(c)
  \/ \E s \in Process, a \in Addr : Hear(s, a) \/ Appear(s, a)
  \/ \E s \in Process : DropPeer(s) \/ \E m \in Mode : SetMode(s, m)
  \/ \E a \in Addr : Receive(a) \/ OnHello(a) \/ Vanish(a)
  \/ \E d \in Device : MaintainTick(d) \/ MaintainCall(d)
  \/ Expire \/ TrackPeer \/ Hide \/ Show

Spec == Init /\ [][Next]_vars

HearAny(d) == \E s \in Process, a \in Addr : DeviceOf[s] = d /\ Hear(s, a) /\ peers' # peers

(* The connections to d that have not been closed. *)
To(d) == {c \in Slots : ~conn[c].closed /\ Home[conn[c].addr] = d}

(* Goroutines and tickers go on, and an announcing device is heard.  Of the connections
   of which each takes the place of the one before, one has the time for its upgrade:
   announces are 5 s apart.  Hellos of peers are not promised, nor is the return of the
   UI.                                                                                 *)
FairSpec ==
  /\ Spec
  /\ \A c \in Slots : WF_vars(Runs(c))
  /\ \A d \in Device : WF_vars(HearAny(d)) /\ SF_vars(\E c \in To(d) : Upgrade(c))
  /\ WF_vars(\E a \in Addr : OnHello(a)) /\ WF_vars(\E s \in Process : DropPeer(s))
  /\ SF_vars(Expire) /\ WF_vars(TrackPeer)

(***************************************************************************)
(* Properties.                                                             *)
(***************************************************************************)
(* A connection of the table has a goroutine behind it, is filed under the key it knows
   and, once connected, under the device that answered (adoptConn, setID, close): a
   message for a device reaches that device or is known not to.                        *)
FiledRight ==
  \A k \in Filed :
    /\ conn[table[k]] # NoConn /\ ~conn[table[k]].closed /\ conn[table[k]].key = k
    /\ Connected(k) => k = Home[conn[table[k]].addr]

Live(d) == d \in Filed /\ conn[table[d]].phase = "up"

(* A live connection is not interrupted by announces, Hellos, the expiry of a SID or an
   adoption (hub.go, Connect): it stays until the peer goes or the node hides.         *)
LiveStays ==
  [][\A d \in Device : Live(d) /\ foreground' =>
       /\ d \in DOMAIN table'
       /\ table'[d] = table[d]
       /\ conn'[table[d]].phase \in {"up", "dead"}]_vars

Announced(d) == \E s \in Process : DeviceOf[s] = d /\ Announcing(s)

(* A device that keeps announcing ends up connected, under its own key, whatever
   addresses, SIDs and failed connections it had before (TrackPeer, adoptConn).   *)
AnnouncedIsReached ==
  \A d \in Device : <>[](foreground /\ Announced(d)) => <>[]Connected(d)

(* A SID that announces no more is forgotten for good: no connection dials under it
   (service.go, PeerGone; hub.go, DropUntrustedSID).                                *)
SilentIsForgotten ==
  \A s \in Process :
    <>[]~Announcing(s) => <>[](s \notin Filed)
=============================================================================
