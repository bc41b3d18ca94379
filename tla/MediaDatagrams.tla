--------------------------- MODULE MediaDatagrams ---------------------------
(***************************************************************************)
(* Video access units on their way from the host to the client in QUIC     *)
(* datagrams (host/transport/src/media.rs, send_encoded_access_units, and  *)
(* the client's H264VideoDatagramReassembler, which is the same algorithm).*)
(*                                                                         *)
(* The host cuts a unit into fragments and sends each in a datagram.  QUIC *)
(* may lose and reorder datagrams and never delivers one twice.  The       *)
(* client puts units together again, drops what is too old and keeps a     *)
(* limited number of them.                                                 *)
(*                                                                         *)
(* A unit is known by its presentation time (pts), which grows with every  *)
(* unit; that and the fragment count stand for the metadata of the header. *)
(* A payload is the range of the unit's bytes that it holds.               *)
(***************************************************************************)
EXTENDS Integers, Sequences, FiniteSets

CONSTANTS
    UnitSizes,     \* lengths of access units in bytes
    Limits,        \* payload limits: min of the configured cap and the peer's
    MaxFragments,  \* largest fragment count (u16::MAX)
    MaxId,         \* largest access unit id (u64::MAX)
    MaxInFlight,   \* max_in_flight_access_units
    Timeout,       \* incomplete_timeout
    MaxUnits,      \* bound on the units the host encodes
    MaxTime        \* bound on the client's clock

ASSUME SizesAssumption == UnitSizes \subseteq Nat /\ Limits \subseteq Nat \ {0}
ASSUME LimitsAssumption ==
    /\ MaxFragments \in Nat \ {0} /\ MaxId \in Nat \ {0}
    /\ MaxInFlight \in Nat \ {0} /\ Timeout \in Nat \ {0}
    /\ MaxUnits \in Nat /\ MaxTime \in Nat

VARIABLES
    next_access_unit_id,
    sent,        \* the units sent so far: sent[pts] is one of them
    network,     \* datagrams under way
    now,         \* the client's clock
    incomplete,  \* access unit id -> incomplete unit
    dropped,     \* dropped_incomplete_access_units: which they were
    output       \* units the client has put together, for its decoder

sender == <<next_access_unit_id, sent>>
vars == <<sender, network, now, incomplete, dropped, output>>

-----------------------------------------------------------------------------
(* H264DatagramPacketizer::packetize_bytes *)

FragmentCount(size, limit) == (size + limit - 1) \div limit

Least(a, b) == IF a <= b THEN a ELSE b

FragmentOverlapping(size, limit, i) ==
    [from |-> i * limit, to |-> Least((i + 1) * limit + 1, size)]

Fragment(size, limit, i) ==
    [from |-> i * limit, to |-> Least((i + 1) * limit, size)]

Indices(count) == 0..(count - 1)

(* The datagrams of a unit. *)
Datagrams(id, pts, size, limit) ==
    LET count == FragmentCount(size, limit)
    IN  {[id |-> id, pts |-> pts, count |-> count, index |-> i,
          payload |-> Fragment(size, limit, i)] : i \in Indices(count)}

(* The whole unit as its fragments, in order. *)
Whole(unit) ==
    [i \in Indices(FragmentCount(unit.size, unit.limit)) |-> Fragment(unit.size, unit.limit, i)]

(* saturating_add *)
IdAfter(id) == Least(id + 1, MaxId)

Init ==
    /\ next_access_unit_id = 1
    /\ sent = <<>>
    /\ network = {}
    /\ now = 0
    /\ incomplete = [id \in {} |-> {}]
    /\ dropped = {}
    /\ output = <<>>

(* send_encoded_access_units: a unit that is empty or has too many fragments is
   refused and uses no id; ids saturate. *)
SendAccessUnit(size, limit) ==
    /\ Len(sent) < MaxUnits
    /\ size > 0
    /\ FragmentCount(size, limit) <= MaxFragments
    /\ sent' = Append(sent, [size |-> size, limit |-> limit])
    /\ network' = network \cup Datagrams(next_access_unit_id, Len(sent) + 1, size, limit)
    /\ next_access_unit_id' = IdAfter(next_access_unit_id)
    /\ UNCHANGED <<now, incomplete, dropped, output>>

(* A datagram is lost, or was never sent because the path's MTU changed. *)
LoseDatagram(d) ==
    /\ network' = network \ {d}
    /\ UNCHANGED <<sender, now, incomplete, dropped, output>>

-----------------------------------------------------------------------------
(* H264VideoDatagramReassembler *)

(* pruneExpired *)
Fresh == {id \in DOMAIN incomplete : now - incomplete[id].first_seen_at < Timeout}

(* A push to a full table first removes the oldest units, the pushed one's own
   among them; units as old as each other may go in any order. *)
Kept(K) ==
    /\ K \subseteq Fresh
    /\ Cardinality(K) = Least(Cardinality(Fresh), MaxInFlight - 1)
    /\ \A k \in K, e \in Fresh \ K :
          incomplete[e].first_seen_at <= incomplete[k].first_seen_at

(* The unit the datagram belongs to, found or new. *)
Entry(d, K) ==
    IF d.id \in K THEN incomplete[d.id]
    ELSE [pts |-> d.pts, count |-> d.count, first_seen_at |-> now,
          fragments |-> [i \in {} |-> {}]]

SameMetadata(e, d) == e.pts = d.pts /\ e.count = d.count

(* A slot that is filled stays as it is. *)
WithFragment(e, d) ==
    [e EXCEPT !.fragments =
        [i \in DOMAIN e.fragments \cup {d.index} |->
            IF i \in DOMAIN e.fragments THEN e.fragments[i] ELSE d.payload]]

(* received_fragments is the number of slots that are filled. *)
CompleteButOne(e) == Cardinality(DOMAIN e.fragments) >= e.count - 1
Complete(e) == DOMAIN e.fragments = Indices(e.count)

DroppingDelivered(K) ==
    dropped' = dropped \cup {incomplete[id].pts : id \in DOMAIN incomplete \ DOMAIN incomplete'}

Dropping(K) == dropped' = dropped \cup {incomplete[id].pts : id \in DOMAIN incomplete \ K}

(* The client's table is what it keeps of it, with entry e under id. *)
Table(K, id, e) ==
    [k \in K \cup {id} |-> IF k = id THEN e ELSE incomplete[k]]

Arrival(d) ==
    /\ d \in network
    /\ network' = network \ {d}
    /\ UNCHANGED <<sender, now>>

Deliver(pts, fragments) ==
    output' = Append(output, [pts |-> pts, fragments |-> fragments])

(* A unit of one fragment does not go through the table. *)
PushSingle(d) ==
    /\ Arrival(d)
    /\ d.count = 1
    /\ incomplete' = [id \in Fresh |-> incomplete[id]]
    /\ Dropping(Fresh)
    /\ Deliver(d.pts, [i \in {0} |-> d.payload])

(* Metadata that differs is an error, after the pruning and the eviction. *)
PushInconsistent(d) ==
    /\ Arrival(d)
    /\ d.count > 1
    /\ \E K \in SUBSET Fresh :
          /\ Kept(K)
          /\ ~SameMetadata(Entry(d, K), d)
          /\ incomplete' = [id \in K |-> incomplete[id]]
          /\ Dropping(K)
    /\ UNCHANGED output

PushFragmentUnchecked(d) ==
    /\ Arrival(d)
    /\ d.count > 1
    /\ \E K \in SUBSET Fresh :
          /\ Kept(K)
          /\ LET e == WithFragment(Entry(d, K), d) IN
             IF Complete(e)
             THEN /\ incomplete' = [id \in K \ {d.id} |-> incomplete[id]]
                  /\ Deliver(e.pts, e.fragments)
             ELSE incomplete' = Table(K, d.id, e) /\ UNCHANGED output
          /\ Dropping(K)

PushFragment(d) ==
    /\ Arrival(d)
    /\ d.count > 1
    /\ \E K \in SUBSET Fresh :
          /\ Kept(K)
          /\ SameMetadata(Entry(d, K), d)
          /\ LET e == WithFragment(Entry(d, K), d) IN
             IF Complete(e)
             THEN /\ incomplete' = [id \in K \ {d.id} |-> incomplete[id]]
                  /\ Deliver(e.pts, e.fragments)
             ELSE incomplete' = Table(K, d.id, e) /\ UNCHANGED output
          /\ Dropping(K)

(* The client prepares for a stream or gives one up: a new reassembler. *)
Reset ==
    /\ incomplete' = [id \in {} |-> {}]
    /\ dropped' = {}
    /\ UNCHANGED <<sender, network, now, output>>

Tick ==
    /\ now < MaxTime
    /\ now' = now + 1
    /\ UNCHANGED <<sender, network, incomplete, dropped, output>>

Next ==
    \/ \E size \in UnitSizes, limit \in Limits : SendAccessUnit(size, limit)
    \/ \E d \in network :
          LoseDatagram(d) \/ PushSingle(d) \/ PushInconsistent(d) \/ PushFragment(d)
    \/ Reset \/ Tick

Spec == Init /\ [][Next]_vars

-----------------------------------------------------------------------------
Payload == [from : Nat, to : Nat]
Unit == [size : UnitSizes, limit : Limits]
Datagram == [id : 1..MaxId, pts : 1..MaxUnits, count : Nat \ {0}, index : Nat, payload : Payload]

(* Types of the sender, the datagrams and the reassembler. *)
TypeOK ==
    /\ next_access_unit_id \in 1..MaxId
    /\ sent \in Seq(Unit) /\ Len(sent) <= MaxUnits
    /\ network \subseteq Datagram
    /\ now \in Nat
    /\ DOMAIN incomplete \subseteq 1..MaxId
    /\ \A id \in DOMAIN incomplete :
          /\ incomplete[id].pts \in 1..Len(sent)
          /\ incomplete[id].first_seen_at \in 0..now
    /\ dropped \subseteq 1..Len(sent)
    /\ \A k \in 1..Len(output) : output[k].pts \in 1..Len(sent)

(* What the client puts together is what the host sent: all fragments of one
   unit, none of another, each once and in its place, whatever was lost or
   overtaken, and even where ids no longer tell units apart. *)
AssembledIsSent ==
    \A k \in 1..Len(output) : output[k].fragments = Whole(sent[output[k].pts])

(* The fragments of a unit follow each other without gap or overlap from its
   first byte to its last, and none exceeds the payload limit. *)
Tiles(size, limit) ==
    LET last == FragmentCount(size, limit) - 1
        f(i) == Fragment(size, limit, i)
    IN  /\ f(0).from = 0 /\ f(last).to = size
        /\ \A i \in 0..last : f(i).from < f(i).to /\ f(i).to - f(i).from <= limit
        /\ \A i \in 0..(last - 1) : f(i).to = f(i + 1).from

(* packetize_bytes cuts every unit it accepts into such fragments. *)
SentUnitsAreTiled ==
    \A k \in 1..Len(sent) : Tiles(sent[k].size, sent[k].limit)

(* No unit reaches the decoder twice: not after it was dropped and its late
   fragments started it anew, and not while another unit has its id. *)
DeliveredOnce ==
    \A j, k \in 1..Len(output) : output[j].pts = output[k].pts => j = k

(* dropped_incomplete_access_units counts only units that are lost: a unit that
   was dropped is never completed by the fragments that come after. *)
DroppedIsLost == \A k \in 1..Len(output) : output[k].pts \notin dropped
=============================================================================
