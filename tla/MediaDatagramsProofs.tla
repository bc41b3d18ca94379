------------------------ MODULE MediaDatagramsProofs ------------------------
(***************************************************************************)
(* Theorems about MediaDatagrams, for units, payload limits, fragment      *)
(* counts and ids of any size, any number of units, any loss and order of  *)
(* datagrams, and any timeout and limit of the client's table.             *)
(***************************************************************************)
EXTENDS MediaDatagrams, TLAPS

-----------------------------------------------------------------------------
(* The packetizer *)

(* A unit needs as many payloads as it fills, the last one perhaps in part. *)
LEMMA CountFacts ==
    ASSUME NEW size \in Nat \ {0}, NEW limit \in Nat \ {0}
    PROVE  /\ FragmentCount(size, limit) \in Nat \ {0}
           /\ size <= FragmentCount(size, limit) * limit
           /\ (FragmentCount(size, limit) - 1) * limit < size
  <1> DEFINE a == size + limit - 1
             q == a \div limit
  <1>1. a \in Nat /\ q \in Int
    OBVIOUS
  <1>2. q * limit <= a /\ a < q * limit + limit
    BY <1>1
  <1>3. q >= 1
    <2>1. CASE q <= 0
      <3>1. q * limit <= 0
        BY <1>1, <2>1
      <3> QED
        BY <1>2, <3>1
    <2> QED
      BY <1>1, <2>1
  <1>4. (q - 1) * limit = q * limit - limit
    BY <1>1
  <1> HIDE DEF q
  <1>5. size <= q * limit /\ (q - 1) * limit < size
    BY <1>1, <1>2, <1>4
  <1> QED
    BY <1>1, <1>3, <1>5 DEF FragmentCount, q

(* The fragments of a unit cover it from the first byte to the last. *)
LEMMA TilesLemma ==
    ASSUME NEW size \in Nat \ {0}, NEW limit \in Nat \ {0}
    PROVE  Tiles(size, limit)
  <1> DEFINE last == FragmentCount(size, limit) - 1
             f(i) == Fragment(size, limit, i)
  <1>1. last \in Nat /\ size <= (last + 1) * limit /\ last * limit < size
    BY CountFacts
  <1> HIDE DEF last
  <1>2. ASSUME NEW i \in 0..last
        PROVE  /\ i * limit \in Nat /\ (i + 1) * limit = i * limit + limit
               /\ i * limit <= last * limit
    <2>1. i \in Nat /\ i <= last
      BY <1>1
    <2>2. i * limit \in Nat /\ (i + 1) * limit = i * limit + limit
      BY <2>1
    <2>3. PICK j \in Nat : last = i + j
      BY <1>1, <2>1
    <2>4. last * limit = i * limit + j * limit /\ j * limit \in Nat
      BY <2>1, <2>3
    <2> QED
      BY <2>2, <2>4
  <1>3. f(0).from = 0
    BY DEF Fragment
  <1>4. f(last).to = size
    BY <1>1 DEF Fragment, Least
  <1>5. ASSUME NEW i \in 0..last PROVE f(i).from < f(i).to /\ f(i).to - f(i).from <= limit
    BY <1>1, <1>2 DEF Fragment, Least
  <1>6. ASSUME NEW i \in 0..(last - 1) PROVE f(i).to = f(i + 1).from
    <2>1. i \in 0..last /\ i + 1 \in 0..last
      BY <1>1
    <2>2. (i + 1) * limit < size
      BY <1>1, <1>2, <2>1
    <2> QED
      BY <1>2, <2>1, <2>2 DEF Fragment, Least
  <1> QED
    BY <1>3, <1>4, <1>5, <1>6 DEF Tiles, last

(* A fragment is a payload. *)
LEMMA FragmentType ==
    ASSUME NEW size \in Nat, NEW limit \in Nat, NEW i \in Nat
    PROVE  Fragment(size, limit, i) \in Payload
  <1>1. i * limit \in Nat /\ (i + 1) * limit \in Nat
    OBVIOUS
  <1> QED
    BY <1>1 DEF Fragment, Least, Payload

-----------------------------------------------------------------------------
(* The inductive invariant *)

(* What the sender made of unit p: its id, how many fragments, and fragment i. *)
Units == 1..Len(sent)
IdOf(p) == Least(p, MaxId)
Count(p) == FragmentCount(sent[p].size, sent[p].limit)
Part(p, i) == Fragment(sent[p].size, sent[p].limit, i)

(* Where fragment i of unit p is: under way, or in the client's table. *)
Travels(p, i) == \E d \in network : d.pts = p /\ d.index = i
InTable(p, i) == \E id \in DOMAIN incomplete :
                    incomplete[id].pts = p /\ i \in DOMAIN incomplete[id].fragments
Delivered(p) == \E k \in 1..Len(output) : output[k].pts = p

FragmentMaps == UNION {[D -> Payload] : D \in SUBSET Nat}
Entries == [pts : Nat, count : Nat, first_seen_at : Nat, fragments : FragmentMaps]
OutputUnits == [pts : Nat, fragments : FragmentMaps]

(* Only units that are not empty are sent, and ids count them until they
   saturate. *)
SenderInvariant ==
    /\ sent \in Seq(Unit) /\ Len(sent) <= MaxUnits
    /\ \A p \in Units : sent[p].size > 0
    /\ next_access_unit_id = IdOf(Len(sent) + 1)

(* Every datagram holds the fragment that its header says. *)
IsPart(d) ==
    /\ d \in [id : Nat, pts : Nat, count : Nat, index : Nat, payload : Payload]
    /\ d.pts \in Units /\ d.index \in Indices(Count(d.pts))
    /\ d.id = IdOf(d.pts) /\ d.count = Count(d.pts)
    /\ d.payload = Part(d.pts, d.index)

(* So does every slot that is filled of a unit the client has begun. *)
IsBegun(e) ==
    /\ e \in Entries
    /\ e.pts \in Units /\ e.count = Count(e.pts) /\ e.count > 1
    /\ e.first_seen_at <= now
    /\ DOMAIN e.fragments # {} /\ DOMAIN e.fragments \subseteq Indices(e.count)
    /\ \A i \in DOMAIN e.fragments : e.fragments[i] = Part(e.pts, i)

WireInvariant == \A d \in network : IsPart(d)

TableInvariant ==
    \A id \in DOMAIN incomplete : IsBegun(incomplete[id]) /\ id = IdOf(incomplete[id].pts)

(* A fragment is in one place: what the table holds does not come again. *)
FragmentsArriveOnce ==
    \A p \in Units : \A i \in Nat : ~(Travels(p, i) /\ InTable(p, i))

(* Nothing is left of a unit that was delivered. *)
DeliveredIsGone ==
    \A p \in Units : Delivered(p) =>
        /\ \A i \in Nat : ~Travels(p, i)
        /\ \A id \in DOMAIN incomplete : incomplete[id].pts # p

OutputInvariant ==
    /\ output \in Seq(OutputUnits)
    /\ \A k \in 1..Len(output) : output[k].pts \in Units
    /\ AssembledIsSent
    /\ DeliveredOnce

(* A unit that was dropped lacks a fragment that is nowhere any more. *)
DropInvariant ==
    \A p \in dropped :
        /\ p \in Units /\ ~Delivered(p)
        /\ \E i \in Indices(Count(p)) : ~Travels(p, i) /\ ~InTable(p, i)

MediaInvariant ==
    /\ SenderInvariant
    /\ now \in Nat
    /\ WireInvariant
    /\ TableInvariant
    /\ FragmentsArriveOnce
    /\ DeliveredIsGone
    /\ OutputInvariant
    /\ DropInvariant

-----------------------------------------------------------------------------
(* What the parts of the invariant say of one unit *)

(* Units that were sent, their fragments and their ids are well formed. *)
LEMMA UnitFacts ==
    ASSUME SenderInvariant, NEW p \in Units
    PROVE  /\ p \in Nat \ {0}
           /\ sent[p] \in Unit /\ sent[p].size \in Nat \ {0} /\ sent[p].limit \in Nat \ {0}
           /\ Count(p) \in Nat \ {0}
           /\ IdOf(p) \in 1..MaxId
           /\ \A i \in Nat : Part(p, i) \in Payload
  <1>1. Len(sent) \in Nat /\ p \in Nat \ {0} /\ sent[p] \in Unit
    BY DEF SenderInvariant, Units
  <1>2. sent[p].size \in Nat \ {0} /\ sent[p].limit \in Nat \ {0}
    <2>1. sent[p].size \in Nat /\ sent[p].limit \in Nat \ {0}
      BY <1>1, SizesAssumption DEF Unit
    <2>2. sent[p].size > 0
      BY DEF SenderInvariant
    <2> QED
      BY <2>1, <2>2
  <1>3. Count(p) \in Nat \ {0}
    BY <1>2, CountFacts DEF Count
  <1>4. IdOf(p) \in 1..MaxId
    BY <1>1, LimitsAssumption DEF IdOf, Least
  <1>5. \A i \in Nat : Part(p, i) \in Payload
    BY <1>2, FragmentType DEF Part
  <1> QED
    BY <1>1, <1>2, <1>3, <1>4, <1>5

(* As long as nothing is sent, the units stay what they are. *)
LEMMA SameUnits ==
    ASSUME UNCHANGED sender
    PROVE  /\ Units' = Units
           /\ \A p : Count(p)' = Count(p) /\ IdOf(p)' = IdOf(p) /\ \A i : Part(p, i)' = Part(p, i)
           /\ SenderInvariant => SenderInvariant'
           /\ \A d : IsPart(d) => IsPart(d)'
           /\ \A p : Whole(sent[p])' = Whole(sent[p])
  BY DEF sender, Units, Count, IdOf, Part, SenderInvariant, IsPart

(* The fragments that travel when d has arrived. *)
LEMMA Arrived ==
    ASSUME WireInvariant, NEW d \in network, network' = network \ {d}
    PROVE  \A p, i : Travels(p, i)' <=> Travels(p, i) /\ ~(p = d.pts /\ i = d.index)
  <1>1. ASSUME NEW c \in network, c.pts = d.pts, c.index = d.index PROVE c = d
    <2>1. IsPart(c) /\ IsPart(d)
      BY DEF WireInvariant
    <2>2. c.id = d.id /\ c.count = d.count /\ c.payload = d.payload
      BY <1>1, <2>1 DEF IsPart
    <2>3. c \in [id : Nat, pts : Nat, count : Nat, index : Nat, payload : Payload]
          /\ d \in [id : Nat, pts : Nat, count : Nat, index : Nat, payload : Payload]
      BY <2>1 DEF IsPart
    <2> QED
      BY <1>1, <2>2, <2>3
  <1> QED
    BY <1>1 DEF Travels

(* A unit the client has begun lacks no fragment that travels, and leaves
   fragments behind that are nowhere else. *)
LEMMA BegunFacts ==
    ASSUME MediaInvariant, NEW id \in DOMAIN incomplete
    PROVE  /\ incomplete[id].pts \in Units /\ ~Delivered(incomplete[id].pts)
           /\ \E i \in DOMAIN incomplete[id].fragments :
                /\ i \in Indices(Count(incomplete[id].pts))
                /\ ~Travels(incomplete[id].pts, i)
           /\ \A i \in DOMAIN incomplete[id].fragments : ~Travels(incomplete[id].pts, i)
           /\ \A k \in DOMAIN incomplete : incomplete[k].pts = incomplete[id].pts => k = id
  <1> DEFINE e == incomplete[id]
  <1>1. IsBegun(e) /\ id = IdOf(e.pts)
    BY DEF MediaInvariant, TableInvariant
  <1>2. e.pts \in Units /\ ~Delivered(e.pts)
    BY <1>1 DEF IsBegun, MediaInvariant, DeliveredIsGone
  <1>3. DOMAIN e.fragments # {} /\ DOMAIN e.fragments \subseteq Indices(Count(e.pts))
    BY <1>1 DEF IsBegun
  <1>4. ASSUME NEW i \in DOMAIN e.fragments PROVE ~Travels(e.pts, i)
    <2>1. i \in Nat
      BY <1>2, <1>3, UnitFacts DEF MediaInvariant, Indices
    <2>2. InTable(e.pts, i)
      BY <1>4 DEF InTable
    <2> QED
      BY <1>2, <2>1, <2>2 DEF MediaInvariant, FragmentsArriveOnce
  <1>5. \A k \in DOMAIN incomplete : incomplete[k].pts = e.pts => k = id
    BY <1>1 DEF MediaInvariant, TableInvariant
  <1> QED
    BY <1>2, <1>3, <1>4, <1>5

-----------------------------------------------------------------------------
(* Steps that only take away *)

(* Datagrams disappear and units leave the table for the count of those that
   were dropped: what is left of the invariant when the output is left out. *)
Fewer(K) ==
    /\ network' \subseteq network
    /\ UNCHANGED sender
    /\ now' \in Nat /\ now <= now'
    /\ K \subseteq DOMAIN incomplete /\ DOMAIN incomplete' = K
    /\ \A id \in K : incomplete'[id] = incomplete[id]
    /\ dropped' \subseteq dropped \cup {incomplete[id].pts : id \in DOMAIN incomplete \ K}

LEMMA FewerStep ==
    ASSUME MediaInvariant, NEW K, Fewer(K)
    PROVE  /\ SenderInvariant' /\ WireInvariant' /\ TableInvariant' /\ FragmentsArriveOnce'
           /\ \A p, i : (Travels(p, i)' => Travels(p, i)) /\ (InTable(p, i)' => InTable(p, i))
           /\ \A p \in dropped : \E i \in Indices(Count(p)) :
                ~(Travels(p, i)') /\ ~(InTable(p, i)')
           /\ \A id \in DOMAIN incomplete \ K : \A p : p = incomplete[id].pts =>
                \E i \in Indices(Count(p)) : ~(Travels(p, i)') /\ ~(InTable(p, i)')
  <1>1. SenderInvariant' /\ Units' = Units
    BY SameUnits DEF MediaInvariant, Fewer
  <1>2. WireInvariant'
    BY SameUnits DEF MediaInvariant, WireInvariant, Fewer
  <1>3. \A p, i : Travels(p, i)' => Travels(p, i)
    BY DEF Travels, Fewer
  <1>4. \A p, i : InTable(p, i)' => InTable(p, i)
    BY DEF InTable, Fewer
  <1>5. FragmentsArriveOnce'
    BY <1>1, <1>3, <1>4 DEF MediaInvariant, FragmentsArriveOnce
  <1>6. \A e : IsBegun(e) => IsBegun(e)'
    BY SameUnits DEF IsBegun, Fewer, MediaInvariant, Entries
  <1>7. TableInvariant'
    <2>1. ASSUME NEW id \in K, NEW e, e = incomplete[id] PROVE IsBegun(e)' /\ id = IdOf(e.pts)'
      BY <1>6, <2>1, SameUnits DEF MediaInvariant, TableInvariant, Fewer
    <2>2. ASSUME NEW id \in DOMAIN incomplete' PROVE (IsBegun(incomplete[id]) /\ id = IdOf(incomplete[id].pts))'
      BY <2>1 DEF Fewer
    <2> QED
      BY <2>2 DEF TableInvariant
  <1>8. \A p \in dropped : \E i \in Indices(Count(p)) : ~(Travels(p, i)') /\ ~(InTable(p, i)')
    BY <1>3, <1>4 DEF MediaInvariant, DropInvariant
  <1>9. ASSUME NEW id \in DOMAIN incomplete \ K, NEW p, p = incomplete[id].pts
        PROVE  \E i \in Indices(Count(p)) : ~(Travels(p, i)') /\ ~(InTable(p, i)')
    <2>1. PICK i \in Indices(Count(p)) : ~Travels(p, i)
      BY <1>9, BegunFacts
    <2>2. \A k \in K : incomplete'[k].pts # p
      BY <1>9, BegunFacts DEF Fewer
    <2>3. ~(InTable(p, i)')
      BY <2>2 DEF InTable, Fewer
    <2> QED
      BY <1>3, <2>1, <2>3
  <1> QED
    BY <1>1, <1>2, <1>3, <1>4, <1>5, <1>7, <1>8, <1>9

(* If no unit is delivered in such a step, that is all. *)
LEMMA FewerQuiet ==
    ASSUME MediaInvariant, NEW K, Fewer(K), output' = output
    PROVE  MediaInvariant'
  <1>1. Units' = Units /\ \A p : (Delivered(p)' <=> Delivered(p)) /\ Count(p)' = Count(p)
    BY SameUnits DEF Fewer, Delivered
  <1>2. DeliveredIsGone'
    <2>1. \A id \in DOMAIN incomplete' : \E k \in DOMAIN incomplete : incomplete'[id].pts = incomplete[k].pts
      BY DEF Fewer
    <2> QED
      BY <1>1, <2>1, FewerStep DEF MediaInvariant, DeliveredIsGone
  <1>3. OutputInvariant'
    <2>1. AssembledIsSent' /\ DeliveredOnce'
      BY DEF MediaInvariant, OutputInvariant, AssembledIsSent, DeliveredOnce, Fewer, sender
    <2> QED
      BY <1>1, <2>1 DEF MediaInvariant, OutputInvariant
  <1>4. DropInvariant'
    <2>1. ASSUME NEW p \in dropped' PROVE p \in Units /\ ~Delivered(p)
      BY <2>1, BegunFacts DEF Fewer, MediaInvariant, DropInvariant
    <2>2. ASSUME NEW p \in dropped'
          PROVE  \E i \in Indices(Count(p)) : ~(Travels(p, i)') /\ ~(InTable(p, i)')
      <3>1. CASE p \in dropped
        BY <3>1, FewerStep
      <3>2. CASE \E id \in DOMAIN incomplete \ K : p = incomplete[id].pts
        BY <3>2, FewerStep
      <3> QED
        BY <3>1, <3>2 DEF Fewer
    <2> QED
      BY <1>1, <2>1, <2>2 DEF DropInvariant, Indices
  <1> QED
    BY <1>2, <1>3, <1>4, FewerStep DEF MediaInvariant, Fewer

(* Or a unit is delivered, whole, for the first time, and nothing of it is left. *)
LEMMA FewerDelivers ==
    ASSUME MediaInvariant, NEW K, Fewer(K), NEW p \in Units, NEW F \in FragmentMaps,
           F = Whole(sent[p]), output' = Append(output, [pts |-> p, fragments |-> F]),
           ~Delivered(p), p \notin dropped',
           \A i \in Nat : ~(Travels(p, i)'), \A id \in K : incomplete[id].pts # p
    PROVE  MediaInvariant'
  <1> DEFINE u == [pts |-> p, fragments |-> F]
             n == Len(output)
  <1>0. output \in Seq(OutputUnits) /\ u \in OutputUnits /\ n \in Nat /\ sent' = sent
    BY UnitFacts DEF MediaInvariant, OutputInvariant, OutputUnits, Fewer, sender
  <1>1. /\ output' \in Seq(OutputUnits) /\ Len(output') = n + 1
        /\ output'[n + 1] = u /\ \A k \in 1..n : output'[k] = output[k]
    BY <1>0
  <1>2. Units' = Units /\ \A q : Count(q)' = Count(q)
    BY SameUnits DEF Fewer
  <1> HIDE DEF u
  <1>3. u.pts = p /\ u.fragments = F
    BY DEF u
  <1>4. \A q : Delivered(q)' <=> Delivered(q) \/ q = p
    <2>1. \A q : Delivered(q) => Delivered(q)'
      BY <1>0, <1>1 DEF Delivered
    <2>2. Delivered(p)'
      BY <1>0, <1>1, <1>3 DEF Delivered
    <2>3. \A q : Delivered(q)' => Delivered(q) \/ q = p
      BY <1>0, <1>1, <1>3 DEF Delivered
    <2> QED
      BY <2>1, <2>2, <2>3
  <1>5. DeliveredIsGone'
    <2>1. \A id \in DOMAIN incomplete' : incomplete'[id] = incomplete[id] /\ id \in K /\ id \in DOMAIN incomplete
      BY DEF Fewer
    <2>2. \A q \in Units : Delivered(q) =>
            /\ \A i \in Nat : ~(Travels(q, i)')
            /\ \A id \in DOMAIN incomplete' : incomplete'[id].pts # q
      BY <2>1, FewerStep DEF MediaInvariant, DeliveredIsGone
    <2> QED
      BY <1>2, <1>4, <2>1, <2>2 DEF DeliveredIsGone
  <1>6. OutputInvariant'
    <2>1. \A k \in 1..Len(output') :
            output'[k].pts \in Units /\ output'[k].fragments = Whole(sent[output'[k].pts])
      BY <1>0, <1>1, <1>3 DEF MediaInvariant, OutputInvariant, AssembledIsSent
    <2>2. \A k \in 1..n : output[k].pts # p
      BY DEF Delivered
    <2>3. DeliveredOnce'
      BY <1>0, <1>1, <1>3, <2>2 DEF MediaInvariant, OutputInvariant, DeliveredOnce
    <2>4. AssembledIsSent'
      BY <1>0, <2>1 DEF AssembledIsSent
    <2> QED
      BY <1>1, <1>2, <2>1, <2>3, <2>4 DEF OutputInvariant
  <1>7. DropInvariant'
    <2>1. ASSUME NEW q \in dropped' PROVE q \in Units /\ ~Delivered(q) /\ q # p
      BY <2>1, BegunFacts DEF Fewer, MediaInvariant, DropInvariant
    <2>2. ASSUME NEW q \in dropped'
          PROVE  \E i \in Indices(Count(q)) : ~(Travels(q, i)') /\ ~(InTable(q, i)')
      <3>1. CASE q \in dropped
        BY <3>1, FewerStep
      <3>2. CASE \E id \in DOMAIN incomplete \ K : q = incomplete[id].pts
        BY <3>2, FewerStep
      <3> QED
        BY <3>1, <3>2 DEF Fewer
    <2> QED
      BY <1>2, <1>4, <2>1, <2>2 DEF DropInvariant, Indices
  <1> QED
    BY <1>5, <1>6, <1>7, FewerStep DEF MediaInvariant, Fewer

-----------------------------------------------------------------------------
(* Steps that put a fragment in its slot *)

(* The unit that a fragment d is put in: found in the table, or new. *)
LEMMA SlotFacts ==
    ASSUME MediaInvariant, NEW d \in network, NEW K \in SUBSET DOMAIN incomplete,
           SameMetadata(Entry(d, K), d), d.count > 1,
           NEW e, e = WithFragment(Entry(d, K), d)
    PROVE  /\ IsBegun(e) /\ e.pts = d.pts /\ d.index \in DOMAIN e.fragments
           /\ d.id \in K => /\ incomplete[d.id].pts = d.pts
                            /\ DOMAIN e.fragments = DOMAIN incomplete[d.id].fragments \cup {d.index}
           /\ d.id \notin K => DOMAIN e.fragments = {d.index}
           /\ Complete(e) => d.id \in K /\ e.fragments = Whole(sent[d.pts])
  <1> DEFINE o == Entry(d, K)
             D == DOMAIN o.fragments \cup {d.index}
             f == [i \in D |-> IF i \in DOMAIN o.fragments THEN o.fragments[i] ELSE d.payload]
  <1>1. /\ d.pts \in Units /\ d.index \in Indices(Count(d.pts)) /\ d.id = IdOf(d.pts)
        /\ d.count = Count(d.pts) /\ d.payload = Part(d.pts, d.index) /\ d.pts \in Nat
        /\ Count(d.pts) \in Nat /\ \A i \in Nat : Part(d.pts, i) \in Payload
    BY UnitFacts DEF MediaInvariant, WireInvariant, IsPart
  <1>2. /\ o \in Entries /\ o.pts = d.pts /\ o.count = d.count /\ o.first_seen_at <= now
        /\ DOMAIN o.fragments \subseteq Indices(Count(d.pts))
        /\ \A i \in DOMAIN o.fragments : o.fragments[i] = Part(d.pts, i)
    <2>1. CASE d.id \in K
      <3>1. o = incomplete[d.id] /\ IsBegun(o) /\ o.pts = d.pts /\ o.count = d.count
        BY <2>1 DEF Entry, SameMetadata, MediaInvariant, TableInvariant
      <3> HIDE DEF o
      <3> QED
        BY <1>1, <3>1 DEF IsBegun
    <2>2. CASE d.id \notin K
      <3>1. o = [pts |-> d.pts, count |-> d.count, first_seen_at |-> now,
                 fragments |-> [i \in {} |-> {}]]
        BY <2>2 DEF Entry
      <3>2. [i \in {} |-> {}] \in FragmentMaps /\ now \in Nat
        <4>1. [i \in {} |-> {}] \in [{} -> Payload] /\ {} \in SUBSET Nat
          OBVIOUS
        <4> QED
          BY <4>1 DEF FragmentMaps, MediaInvariant
      <3> HIDE DEF o
      <3> QED
        BY <1>1, <3>1, <3>2 DEF Entries
    <2> QED
      BY <2>1, <2>2
  <1>3. e = [o EXCEPT !.fragments = f]
    BY DEF WithFragment
  <1>4. D \subseteq Indices(Count(d.pts)) /\ D \subseteq Nat
    BY <1>1, <1>2 DEF Indices
  <1> HIDE DEF o
  <1>5. \A i \in D : f[i] = Part(d.pts, i)
    BY <1>1, <1>2
  <1>6. f \in [D -> Payload]
    <2>1. \A i \in D : f[i] \in Payload
      BY <1>1, <1>4, <1>5
    <2> HIDE DEF D
    <2> QED
      BY <2>1
  <1>7. DOMAIN f = D /\ f \in FragmentMaps
    BY <1>4, <1>6 DEF FragmentMaps
  <1> HIDE DEF f
  <1>8. /\ e \in Entries /\ e.pts = d.pts /\ e.count = d.count /\ e.first_seen_at <= now
        /\ e.fragments = f
    BY <1>2, <1>3, <1>7 DEF Entries
  <1>9. IsBegun(e) /\ d.index \in DOMAIN e.fragments
    BY <1>1, <1>4, <1>5, <1>7, <1>8 DEF IsBegun
  <1>10. d.id \in K => incomplete[d.id].pts = d.pts /\ D = DOMAIN incomplete[d.id].fragments \cup {d.index}
    BY <1>2 DEF o, Entry
  <1>11. d.id \notin K => D = {d.index}
    BY DEF o, Entry
  <1>12. ASSUME Complete(e) PROVE d.id \in K /\ e.fragments = Whole(sent[d.pts])
    <2>1. D = Indices(Count(d.pts))
      BY <1>1, <1>7, <1>8, <1>12 DEF Complete
    <2>2. 0 \in D /\ 1 \in D
      BY <1>1, <2>1 DEF Indices
    <2>3. d.id \in K
      BY <1>11, <2>2
    <2>4. f = [i \in D |-> Part(d.pts, i)]
      BY <1>5, <1>6
    <2>5. f = Whole(sent[d.pts])
      BY <2>1, <2>4 DEF Whole, Part, Count
    <2> QED
      BY <1>8, <2>3, <2>5
  <1> QED
    BY <1>7, <1>8, <1>9, <1>10, <1>11, <1>12

(* The fragment leaves the wire for the table, and what was dropped stays lost:
   even a unit that is begun anew lacks what it had before. *)
LEMMA GrowsStep ==
    ASSUME MediaInvariant, NEW d \in network, NEW K \in SUBSET DOMAIN incomplete,
           SameMetadata(Entry(d, K), d), d.count > 1,
           NEW e, e = WithFragment(Entry(d, K), d),
           network' = network \ {d}, UNCHANGED <<sender, now, output>>,
           incomplete' = Table(K, d.id, e), Dropping(K)
    PROVE  MediaInvariant'
  <1> DEFINE p == d.pts
  <1>0. /\ SenderInvariant' /\ Units' = Units /\ now' = now
        /\ \A q : Count(q)' = Count(q) /\ IdOf(q)' = IdOf(q) /\ (Delivered(q)' <=> Delivered(q))
    BY SameUnits DEF MediaInvariant, Delivered
  <1>1. /\ IsBegun(e) /\ e.pts = p /\ d.index \in DOMAIN e.fragments
        /\ d.id \in K => /\ incomplete[d.id].pts = p
                         /\ DOMAIN e.fragments = DOMAIN incomplete[d.id].fragments \cup {d.index}
        /\ d.id \notin K => DOMAIN e.fragments = {d.index}
    BY SlotFacts
  <1>2. p \in Units /\ d.id = IdOf(p) /\ d.index \in Nat /\ Travels(p, d.index) /\ ~Delivered(p)
    <2>1. p \in Units /\ d.id = IdOf(p) /\ d.index \in Nat
      BY DEF MediaInvariant, WireInvariant, IsPart
    <2>2. Travels(p, d.index)
      BY DEF Travels
    <2> QED
      BY <2>1, <2>2 DEF MediaInvariant, DeliveredIsGone
  <1>3. /\ DOMAIN incomplete' = K \cup {d.id} /\ incomplete'[d.id] = e
        /\ \A k \in K \ {d.id} : incomplete'[k] = incomplete[k]
    BY DEF Table
  <1>4. \A q, i : Travels(q, i)' <=> Travels(q, i) /\ ~(q = p /\ i = d.index)
    BY Arrived DEF MediaInvariant
  <1>5. \A q, i : InTable(q, i)' => InTable(q, i) \/ (q = p /\ i = d.index)
    <2>1. ASSUME NEW q, NEW i, NEW id \in K \cup {d.id},
                 incomplete'[id].pts = q, i \in DOMAIN incomplete'[id].fragments
          PROVE  InTable(q, i) \/ (q = p /\ i = d.index)
      <3>1. CASE id # d.id
        BY <1>3, <2>1, <3>1 DEF InTable
      <3>2. CASE id = d.id
        BY <1>1, <1>3, <2>1, <3>2 DEF InTable
      <3> QED
        BY <3>1, <3>2
    <2> QED
      BY <1>3, <2>1 DEF InTable
  <1>6. WireInvariant'
    BY SameUnits DEF MediaInvariant, WireInvariant
  <1>7. TableInvariant'
    <2>1. \A x : IsBegun(x) => IsBegun(x)'
      BY <1>0, SameUnits DEF IsBegun
    <2>2. ASSUME NEW id \in K \cup {d.id}, NEW x, x = incomplete'[id]
          PROVE  IsBegun(x)' /\ id = IdOf(x.pts)'
      <3>1. CASE id # d.id
        BY <1>0, <1>3, <2>1, <2>2, <3>1 DEF MediaInvariant, TableInvariant
      <3>2. CASE id = d.id
        BY <1>0, <1>1, <1>2, <1>3, <2>1, <2>2, <3>2
      <3> QED
        BY <3>1, <3>2
    <2>3. ASSUME NEW id \in DOMAIN incomplete'
          PROVE  (IsBegun(incomplete[id]) /\ id = IdOf(incomplete[id].pts))'
      BY <1>3, <2>2
    <2> QED
      BY <2>3 DEF TableInvariant
  <1>8. FragmentsArriveOnce'
    BY <1>0, <1>4, <1>5 DEF MediaInvariant, FragmentsArriveOnce
  <1>9. DeliveredIsGone'
    <2>1. ASSUME NEW q \in Units, Delivered(q), NEW id \in DOMAIN incomplete'
          PROVE  incomplete'[id].pts # q
      BY <1>1, <1>2, <1>3, <2>1 DEF MediaInvariant, DeliveredIsGone
    <2> QED
      BY <1>0, <1>4, <2>1 DEF MediaInvariant, DeliveredIsGone
  <1>10. OutputInvariant'
    <2>1. AssembledIsSent' /\ DeliveredOnce'
      BY DEF MediaInvariant, OutputInvariant, AssembledIsSent, DeliveredOnce, sender
    <2> QED
      BY <1>0, <2>1 DEF MediaInvariant, OutputInvariant
  <1>11. DropInvariant'
    <2>1. ASSUME NEW q \in dropped'
          PROVE  /\ q \in Units /\ ~Delivered(q)
                 /\ \E i \in Indices(Count(q)) : ~(Travels(q, i)') /\ ~(InTable(q, i)')
      <3>1. CASE q \in dropped
        <4>1. PICK i \in Indices(Count(q)) : ~Travels(q, i) /\ ~InTable(q, i)
          BY <3>1 DEF MediaInvariant, DropInvariant
        <4> QED
          BY <1>2, <1>4, <1>5, <3>1, <4>1 DEF MediaInvariant, DropInvariant
      <3>2. CASE q \notin dropped
        <4>1. PICK id \in DOMAIN incomplete \ K : q = incomplete[id].pts
          BY <2>1, <3>2 DEF Dropping
        <4>2. q \in Units /\ ~Delivered(q) /\ \A k \in DOMAIN incomplete : incomplete[k].pts = q => k = id
          BY <4>1, BegunFacts
        <4>3. PICK i \in Indices(Count(q)) : ~Travels(q, i)
          BY <4>1, BegunFacts
        <4>4. \A k \in K \ {d.id} : incomplete'[k].pts # q
          BY <1>3, <4>1, <4>2
        <4>5. ~(InTable(q, i)')
          <5>1. ASSUME NEW k \in K \cup {d.id}, incomplete'[k].pts = q,
                       i \in DOMAIN incomplete'[k].fragments
                PROVE  FALSE
            <6>1. k = d.id /\ q = p /\ i \in DOMAIN e.fragments
              BY <1>1, <1>3, <4>4, <5>1
            <6>2. d.id \notin K
              BY <1>1, <4>1, <4>2, <6>1
            <6>3. i = d.index
              BY <1>1, <6>1, <6>2
            <6> QED
              BY <1>2, <4>3, <6>1, <6>3
          <5> QED
            BY <1>3, <5>1 DEF InTable
        <4> QED
          BY <1>4, <4>2, <4>3, <4>5
      <3> QED
        BY <3>1, <3>2
    <2> QED
      BY <1>0, <2>1 DEF DropInvariant, Indices
  <1> QED
    BY <1>0, <1>6, <1>7, <1>8, <1>9, <1>10, <1>11 DEF MediaInvariant

-----------------------------------------------------------------------------
(* The step that sends *)

(* A new unit has a time of its own, so nothing that is under way, begun,
   delivered or dropped is taken for it. *)
LEMMA SendStep ==
    ASSUME MediaInvariant, NEW size \in UnitSizes, NEW limit \in Limits,
           SendAccessUnit(size, limit)
    PROVE  MediaInvariant'
  <1> PICK n : n = Len(sent)
    OBVIOUS
  <1> DEFINE unit == [size |-> size, limit |-> limit]
  <1>0. n \in Nat /\ sent \in Seq(Unit) /\ unit \in Unit /\ size \in Nat \ {0} /\ limit \in Nat \ {0}
    BY SizesAssumption DEF MediaInvariant, SenderInvariant, Unit, SendAccessUnit
  <1>1. /\ sent' = Append(sent, unit) /\ n < MaxUnits
        /\ network' = network \cup Datagrams(next_access_unit_id, n + 1, size, limit)
        /\ next_access_unit_id' = IdAfter(next_access_unit_id)
        /\ UNCHANGED <<now, incomplete, dropped, output>>
    BY DEF SendAccessUnit
  <1>2. /\ sent' \in Seq(Unit) /\ Len(sent') = n + 1 /\ sent'[n + 1] = unit
        /\ \A q \in 1..n : sent'[q] = sent[q]
    BY <1>0, <1>1
  <1>3. Units = 1..n /\ Units' = 1..(n + 1) /\ \A q : IdOf(q)' = IdOf(q)
    BY <1>2 DEF Units, IdOf
  <1>4. \A q \in Units : /\ Count(q)' = Count(q) /\ Whole(sent[q])' = Whole(sent[q])
                         /\ \A i : Part(q, i)' = Part(q, i)
    BY <1>2, <1>3 DEF Count, Part
  <1>5. SenderInvariant'
    <2>1. \A q \in 1..(n + 1) : sent'[q].size > 0
      BY <1>0, <1>2, <1>3 DEF MediaInvariant, SenderInvariant
    <2>2. next_access_unit_id' = IdOf(Len(sent') + 1)
      BY <1>0, <1>1, <1>2, LimitsAssumption DEF MediaInvariant, SenderInvariant, IdAfter, IdOf, Least
    <2>3. Len(sent') <= MaxUnits
      BY <1>0, <1>1, <1>2, LimitsAssumption
    <2> QED
      BY <1>2, <1>3, <2>1, <2>2, <2>3 DEF SenderInvariant, IdOf
  <1>6. ASSUME NEW d \in Datagrams(next_access_unit_id, n + 1, size, limit)
        PROVE  IsPart(d)' /\ d.pts = n + 1
    <2>1. PICK i \in Indices(FragmentCount(size, limit)) :
            d = [id |-> next_access_unit_id, pts |-> n + 1, count |-> FragmentCount(size, limit),
                 index |-> i, payload |-> Fragment(size, limit, i)]
      BY DEF Datagrams
    <2>2. FragmentCount(size, limit) \in Nat /\ i \in Nat
      BY <1>0, CountFacts DEF Indices
    <2>3. Count(n + 1)' = FragmentCount(size, limit) /\ Part(n + 1, i)' = Fragment(size, limit, i)
      BY <1>2 DEF Count, Part
    <2>4. Fragment(size, limit, i) \in Payload
      BY <1>0, <2>2, FragmentType
    <2>5. next_access_unit_id = IdOf(n + 1) /\ IdOf(n + 1) \in Nat
      BY <1>0, LimitsAssumption DEF MediaInvariant, SenderInvariant, IdOf, Least
    <2>6. d.pts = n + 1 /\ n + 1 \in Units' /\ d.index = i
      BY <1>0, <1>3, <2>1
    <2> QED
      BY <1>0, <1>3, <2>1, <2>2, <2>3, <2>4, <2>5, <2>6 DEF IsPart, Indices
  <1>7. \A d : IsPart(d) => IsPart(d)'
    BY <1>0, <1>3, <1>4 DEF IsPart, Indices
  <1>8. WireInvariant'
    BY <1>1, <1>6, <1>7 DEF MediaInvariant, WireInvariant
  <1>9. \A q \in Units : \A i : Travels(q, i)' <=> Travels(q, i)
    <2>1. \A q \in Units : q # n + 1
      BY <1>0, <1>3
    <2> QED
      BY <1>1, <1>6, <2>1 DEF Travels
  <1>10. \A q, i : InTable(q, i)' <=> InTable(q, i)
    BY <1>1 DEF InTable
  <1>11. \A q : Delivered(q)' <=> Delivered(q)
    BY <1>1 DEF Delivered
  <1>12. \A i : ~InTable(n + 1, i)
    <2>1. \A id \in DOMAIN incomplete : incomplete[id].pts \in 1..n
      BY <1>3 DEF MediaInvariant, TableInvariant, IsBegun
    <2> QED
      BY <1>0, <2>1 DEF InTable
  <1>13. ~Delivered(n + 1)
    <2>1. \A k \in 1..Len(output) : output[k].pts \in 1..n
      BY <1>3 DEF MediaInvariant, OutputInvariant
    <2> QED
      BY <1>0, <2>1 DEF Delivered
  <1>14. TableInvariant'
    <2>1. \A e : IsBegun(e) => IsBegun(e)'
      BY <1>0, <1>1, <1>3, <1>4 DEF IsBegun
    <2>2. ASSUME NEW id \in DOMAIN incomplete, NEW e, e = incomplete[id]
          PROVE  IsBegun(e)' /\ id = IdOf(e.pts)'
      BY <1>3, <2>1, <2>2 DEF MediaInvariant, TableInvariant
    <2>3. ASSUME NEW id \in DOMAIN incomplete'
          PROVE  (IsBegun(incomplete[id]) /\ id = IdOf(incomplete[id].pts))'
      BY <1>1, <2>2
    <2> QED
      BY <2>3 DEF TableInvariant
  <1>15. FragmentsArriveOnce'
    BY <1>0, <1>3, <1>9, <1>10, <1>12 DEF MediaInvariant, FragmentsArriveOnce
  <1>16. DeliveredIsGone'
    BY <1>0, <1>1, <1>3, <1>9, <1>11, <1>13 DEF MediaInvariant, DeliveredIsGone
  <1>17. OutputInvariant'
    <2>1. DeliveredOnce'
      BY <1>1 DEF MediaInvariant, OutputInvariant, DeliveredOnce
    <2>2. \A k \in 1..Len(output) : output[k].pts \in Units
      BY DEF MediaInvariant, OutputInvariant
    <2>3. \A k \in 1..Len(output) : sent'[output[k].pts] = sent[output[k].pts]
      BY <1>2, <1>3, <2>2
    <2>4. AssembledIsSent'
      BY <1>1, <2>3 DEF MediaInvariant, OutputInvariant, AssembledIsSent
    <2> QED
      BY <1>0, <1>1, <1>3, <2>1, <2>2, <2>4 DEF MediaInvariant, OutputInvariant
  <1>18. DropInvariant'
    <2>1. \A q \in dropped : q \in Units /\ ~Delivered(q)
            /\ \E i \in Indices(Count(q)) : ~Travels(q, i) /\ ~InTable(q, i)
      BY DEF MediaInvariant, DropInvariant
    <2> QED
      BY <1>0, <1>1, <1>3, <1>4, <1>9, <1>10, <1>11, <2>1 DEF DropInvariant, Indices
  <1> QED
    BY <1>1, <1>5, <1>8, <1>14, <1>15, <1>16, <1>17, <1>18 DEF MediaInvariant

-----------------------------------------------------------------------------
(* The theorems *)

(* Nothing is sent, received or dropped yet. *)
LEMMA MediaInit == Init => MediaInvariant
  <1> SUFFICES ASSUME Init PROVE MediaInvariant
    OBVIOUS
  <1>1. Units = {} /\ Len(output) = 0 /\ DOMAIN incomplete = {} /\ output \in Seq(OutputUnits)
    BY DEF Init, Units
  <1>2. SenderInvariant
    BY <1>1, LimitsAssumption DEF Init, SenderInvariant, IdOf, Least, Units
  <1> QED
    BY <1>1, <1>2 DEF Init, MediaInvariant, WireInvariant, TableInvariant, FragmentsArriveOnce,
       DeliveredIsGone, OutputInvariant, AssembledIsSent, DeliveredOnce, DropInvariant

(* A fragment arrives that is a unit by itself. *)
LEMMA SingleStep ==
    ASSUME MediaInvariant, NEW d \in network, PushSingle(d)
    PROVE  MediaInvariant'
  <1>0. /\ d.pts \in Units /\ d.index \in Indices(Count(d.pts)) /\ d.count = Count(d.pts)
        /\ d.payload = Part(d.pts, d.index) /\ Part(d.pts, d.index) \in Payload
    BY UnitFacts DEF MediaInvariant, WireInvariant, IsPart, Indices
  <1>1. d.index = 0 /\ Indices(Count(d.pts)) = {0} /\ Count(d.pts) = 1
    BY <1>0 DEF PushSingle, Indices
  <1> DEFINE F == [i \in {0} |-> d.payload]
  <1>2. F = Whole(sent[d.pts])
    BY <1>0, <1>1 DEF Whole, Part, Count
  <1>3. F \in FragmentMaps
    <2>1. F \in [{0} -> Payload] /\ {0} \in SUBSET Nat
      BY <1>0
    <2> QED
      BY <2>1 DEF FragmentMaps
  <1>4. /\ network' = network \ {d} /\ UNCHANGED <<sender, now>>
        /\ incomplete' = [id \in Fresh |-> incomplete[id]] /\ Dropping(Fresh)
        /\ output' = Append(output, [pts |-> d.pts, fragments |-> F])
    BY DEF PushSingle, Arrival, Deliver
  <1> HIDE DEF F
  <1>5. Fewer(Fresh)
    BY <1>4 DEF Fewer, Fresh, Dropping, MediaInvariant
  <1>6. Travels(d.pts, 0) /\ ~Delivered(d.pts)
    BY <1>0, <1>1 DEF Travels, MediaInvariant, DeliveredIsGone
  <1>7. \A id \in DOMAIN incomplete : incomplete[id].pts # d.pts
    BY <1>1 DEF MediaInvariant, TableInvariant, IsBegun
  <1>8. d.pts \notin dropped'
    <2>1. d.pts \notin dropped
      BY <1>1, <1>6 DEF MediaInvariant, DropInvariant
    <2> QED
      BY <1>4, <1>7, <2>1 DEF Dropping
  <1>9. \A q, i : Travels(q, i)' <=> Travels(q, i) /\ ~(q = d.pts /\ i = d.index)
    BY <1>4, Arrived DEF MediaInvariant
  <1>10. \A i : Travels(d.pts, i) => i = 0
    BY <1>1 DEF Travels, MediaInvariant, WireInvariant, IsPart
  <1>11. PICK p \in Units : p = d.pts
    BY <1>0
  <1>12. \A i \in Nat : ~(Travels(p, i)')
    BY <1>1, <1>9, <1>10, <1>11
  <1> QED
    BY <1>2, <1>3, <1>4, <1>5, <1>6, <1>7, <1>8, <1>11, <1>12, FewerDelivers DEF Fresh

(* A fragment arrives that completes its unit, or that does not. *)
LEMMA FragmentStep ==
    ASSUME MediaInvariant, NEW d \in network, PushFragment(d)
    PROVE  MediaInvariant'
  <1>1. PICK K \in SUBSET Fresh :
          /\ SameMetadata(Entry(d, K), d)
          /\ LET e == WithFragment(Entry(d, K), d) IN
             IF Complete(e)
             THEN /\ incomplete' = [id \in K \ {d.id} |-> incomplete[id]]
                  /\ Deliver(e.pts, e.fragments)
             ELSE incomplete' = Table(K, d.id, e) /\ UNCHANGED output
          /\ Dropping(K)
    BY DEF PushFragment
  <1>2. /\ network' = network \ {d} /\ UNCHANGED <<sender, now>> /\ d.count > 1
        /\ K \in SUBSET DOMAIN incomplete
    BY DEF PushFragment, Arrival, Fresh
  <1>3. PICK e : e = WithFragment(Entry(d, K), d)
    OBVIOUS
  <1>4. CASE ~Complete(e)
    <2>1. incomplete' = Table(K, d.id, e) /\ UNCHANGED output
      BY <1>1, <1>3, <1>4
    <2> QED
      BY <1>1, <1>2, <1>3, <2>1, GrowsStep
  <1>5. CASE Complete(e)
    <2>1. incomplete' = [id \in K \ {d.id} |-> incomplete[id]] /\ Deliver(e.pts, e.fragments)
      BY <1>1, <1>3, <1>5
    <2>2. /\ IsBegun(e) /\ e.pts = d.pts /\ d.id \in K /\ incomplete[d.id].pts = d.pts
          /\ DOMAIN e.fragments = DOMAIN incomplete[d.id].fragments \cup {d.index}
          /\ e.fragments = Whole(sent[d.pts])
      BY <1>1, <1>2, <1>3, <1>5, SlotFacts
    <2>3. PICK p \in Units : p = d.pts
      BY <2>2 DEF IsBegun
    <2>4. DOMAIN e.fragments = Indices(Count(p)) /\ e.fragments \in FragmentMaps
      BY <1>5, <2>2, <2>3 DEF Complete, IsBegun, Entries
    <2>5. Fewer(K \ {d.id})
      BY <1>1, <1>2, <2>1 DEF Fewer, Dropping, MediaInvariant
    <2>6. Travels(p, d.index) /\ d.index \in Nat
      BY <2>3 DEF Travels, MediaInvariant, WireInvariant, IsPart
    <2>7. ~Delivered(p)
      BY <2>6 DEF MediaInvariant, DeliveredIsGone
    <2>8. \A id \in DOMAIN incomplete : incomplete[id].pts = p => id = d.id
      BY <1>2, <2>2, <2>3, BegunFacts
    <2>9. \A id \in K \ {d.id} : incomplete[id].pts # p
      BY <1>2, <2>8
    <2>10. p \notin dropped'
      <3>1. \A i \in Indices(Count(p)) : Travels(p, i) \/ InTable(p, i)
        BY <1>2, <2>2, <2>3, <2>4, <2>6 DEF InTable
      <3>2. p \notin dropped
        BY <3>1 DEF MediaInvariant, DropInvariant
      <3> QED
        BY <1>1, <2>2, <2>8, <3>2 DEF Dropping
    <2>11. \A i \in Nat : ~(Travels(p, i)')
      <3>1. \A i : Travels(p, i) => i \in Indices(Count(p))
        BY DEF Travels, MediaInvariant, WireInvariant, IsPart
      <3>2. \A i \in Indices(Count(p)) : i # d.index => ~Travels(p, i)
        BY <1>2, <2>2, <2>3, <2>4, BegunFacts
      <3>3. \A i : Travels(p, i)' <=> Travels(p, i) /\ i # d.index
        BY <1>2, <2>3, Arrived DEF MediaInvariant
      <3> QED
        BY <3>1, <3>2, <3>3
    <2>12. output' = Append(output, [pts |-> p, fragments |-> e.fragments])
      BY <2>1, <2>2, <2>3 DEF Deliver
    <2> QED
      BY <2>2, <2>3, <2>4, <2>5, <2>7, <2>9, <2>10, <2>11, <2>12, FewerDelivers
  <1> QED
    BY <1>4, <1>5

(* Every step of sender, network and client keeps the invariant. *)
LEMMA MediaNext == MediaInvariant /\ [Next]_vars => MediaInvariant'
  <1> SUFFICES ASSUME MediaInvariant, [Next]_vars PROVE MediaInvariant'
    OBVIOUS
  <1>1. CASE UNCHANGED vars
    <2>1. Fewer(DOMAIN incomplete)
      BY <1>1 DEF vars, Fewer, MediaInvariant
    <2> QED
      BY <1>1, <2>1, FewerQuiet DEF vars
  <1>2. ASSUME NEW size \in UnitSizes, NEW limit \in Limits, SendAccessUnit(size, limit)
        PROVE  MediaInvariant'
    BY <1>2, SendStep
  <1>3. ASSUME NEW d \in network, LoseDatagram(d) PROVE MediaInvariant'
    <2>1. Fewer(DOMAIN incomplete)
      BY <1>3 DEF LoseDatagram, Fewer, MediaInvariant
    <2> QED
      BY <1>3, <2>1, FewerQuiet DEF LoseDatagram
  <1>4. ASSUME NEW d \in network, PushSingle(d) PROVE MediaInvariant'
    BY <1>4, SingleStep
  <1>5. ASSUME NEW d \in network, PushInconsistent(d) PROVE MediaInvariant'
    <2>1. PICK K \in SUBSET Fresh : incomplete' = [id \in K |-> incomplete[id]] /\ Dropping(K)
      BY <1>5 DEF PushInconsistent
    <2>2. Fewer(K)
      BY <1>5, <2>1 DEF PushInconsistent, Arrival, Fewer, Fresh, Dropping, MediaInvariant
    <2> QED
      BY <1>5, <2>2, FewerQuiet DEF PushInconsistent
  <1>6. ASSUME NEW d \in network, PushFragment(d) PROVE MediaInvariant'
    BY <1>6, FragmentStep
  <1>7. CASE Reset
    <2>1. Fewer({})
      BY <1>7 DEF Reset, Fewer, MediaInvariant
    <2> QED
      BY <1>7, <2>1, FewerQuiet DEF Reset
  <1>8. CASE Tick
    <2>1. Fewer(DOMAIN incomplete)
      BY <1>8 DEF Tick, Fewer, MediaInvariant
    <2> QED
      BY <1>8, <2>1, FewerQuiet DEF Tick
  <1> QED
    BY <1>1, <1>2, <1>3, <1>4, <1>5, <1>6, <1>7, <1>8 DEF Next

(* The invariant of sender, wire and table always holds. *)
THEOREM MediaInvariantHolds == Spec => []MediaInvariant
  BY MediaInit, MediaNext, PTL DEF Spec

(* The sender, the datagrams, the table and the statistics have their types:
   every time that is named is one of a unit that was sent, and every id one
   that the sender counted. *)
THEOREM MediaTypeCorrect == Spec => []TypeOK
  <1>1. ASSUME MediaInvariant PROVE TypeOK
    <2>0. \A p \in Nat \ {0} : IdOf(p) \in 1..MaxId
      BY LimitsAssumption DEF IdOf, Least
    <2>1. /\ next_access_unit_id \in 1..MaxId /\ sent \in Seq(Unit)
          /\ Len(sent) \in Nat /\ Len(sent) <= MaxUnits /\ now \in Nat
      BY <1>1, <2>0 DEF MediaInvariant, SenderInvariant
    <2>2. \A p \in Units : p \in Nat \ {0} /\ p \in 1..MaxUnits /\ Count(p) \in Nat \ {0}
      BY <1>1, <2>1, UnitFacts, LimitsAssumption DEF MediaInvariant, Units
    <2>3. network \subseteq Datagram
      <3>1. ASSUME NEW d \in network PROVE d \in Datagram
        <4>1. /\ d \in [id : Nat, pts : Nat, count : Nat, index : Nat, payload : Payload]
              /\ d.pts \in Units /\ d.id = IdOf(d.pts) /\ d.count = Count(d.pts)
          BY <1>1 DEF MediaInvariant, WireInvariant, IsPart
        <4>2. d.id \in 1..MaxId /\ d.pts \in 1..MaxUnits /\ d.count \in Nat \ {0}
          BY <2>0, <2>2, <4>1
        <4> QED
          BY <4>1, <4>2 DEF Datagram
      <3> QED
        BY <3>1
    <2>4. ASSUME NEW id \in DOMAIN incomplete
          PROVE  /\ id \in 1..MaxId /\ incomplete[id].pts \in 1..Len(sent)
                 /\ incomplete[id].first_seen_at \in 0..now
      <3>1. /\ incomplete[id] \in Entries /\ incomplete[id].pts \in Units
            /\ incomplete[id].first_seen_at <= now /\ id = IdOf(incomplete[id].pts)
        BY <1>1 DEF MediaInvariant, TableInvariant, IsBegun
      <3>2. incomplete[id].first_seen_at \in Nat
        BY <3>1 DEF Entries
      <3> QED
        BY <2>0, <2>1, <2>2, <3>1, <3>2 DEF Units
    <2>5. dropped \subseteq 1..Len(sent)
      BY <1>1 DEF MediaInvariant, DropInvariant, Units
    <2>6. \A k \in 1..Len(output) : output[k].pts \in 1..Len(sent)
      BY <1>1 DEF MediaInvariant, OutputInvariant, Units
    <2> QED
      BY <2>1, <2>3, <2>4, <2>5, <2>6 DEF TypeOK
  <1> QED
    BY <1>1, MediaInvariantHolds, PTL

(* Every unit that the client puts together is the unit that the host sent,
   whatever is lost or overtaken and however many units share an id. *)
THEOREM UnitsAreAssembledAsSent == Spec => []AssembledIsSent
  <1>1. MediaInvariant => AssembledIsSent
    BY DEF MediaInvariant, OutputInvariant
  <1> QED
    BY <1>1, MediaInvariantHolds, PTL

(* Every unit that packetize_bytes accepts is cut without gap or overlap into
   fragments that are not empty and fit their datagrams. *)
THEOREM UnitsAreTiled == Spec => []SentUnitsAreTiled
  <1>1. ASSUME MediaInvariant PROVE SentUnitsAreTiled
    <2>1. ASSUME NEW k \in 1..Len(sent) PROVE Tiles(sent[k].size, sent[k].limit)
      <3>1. sent[k].size \in Nat \ {0} /\ sent[k].limit \in Nat \ {0}
        BY <1>1, UnitFacts DEF MediaInvariant, Units
      <3> QED
        BY <3>1, TilesLemma
    <2> QED
      BY <2>1 DEF SentUnitsAreTiled
  <1> QED
    BY <1>1, MediaInvariantHolds, PTL

(* The decoder is never given a unit twice. *)
THEOREM UnitsAreDeliveredOnce == Spec => []DeliveredOnce
  <1>1. MediaInvariant => DeliveredOnce
    BY DEF MediaInvariant, OutputInvariant
  <1> QED
    BY <1>1, MediaInvariantHolds, PTL

(* A unit that the statistics count as dropped is never delivered. *)
THEOREM DroppedUnitsAreLost == Spec => []DroppedIsLost
  <1>1. MediaInvariant => DroppedIsLost
    BY DEF MediaInvariant, DropInvariant, Delivered, DroppedIsLost
  <1> QED
    BY <1>1, MediaInvariantHolds, PTL
=============================================================================
