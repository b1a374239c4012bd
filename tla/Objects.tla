------------------------------- MODULE Objects -------------------------------
(***************************************************************************)
(* Objects of slots: the list of an object's slots and the index beside a  *)
(* long one, lookup along the prototypes, and the export boundary an       *)
(* object draws or inherits, as sends, binds and reflection keep it.       *)
(*                                                                         *)
(* Objects are numbered as they are made, so a prototype is smaller than   *)
(* what is made from it and the nearest of several ancestors is the        *)
(* greatest.  What a slot holds is left out of it, except whether the last *)
(* to write it was inside its object.                                      *)
(***************************************************************************)
EXTENDS Integers, Sequences, FiniteSets

CONSTANTS
  Name,        \* interned names
  List,        \* arrays of symbols that boundaries are drawn with
  None,        \* nil: no boundary, no self
  Threshold,   \* SOL_INDEX_THRESHOLD: slots an object has before it is indexed
  MinSeats,    \* 16: seats of the first index
  MaxObjects,  \* bound: objects made
  MaxSlots,    \* bound: slots of all the objects together
  CallocFails  \* whether the memory of an index may be refused

\* An index has a seat, and nil is no object and no array.
ObjectsAssumption == MinSeats \in Nat \ {0} /\ None \notin Nat \cup List

VARIABLES
  objects,  \* the objects made so far
  array,    \* the names each array holds
  filling,  \* the call of new in progress: the names of its dictionary still to bind
  settled   \* history: objects whose boundary has not moved under slots they had

vars == <<objects, array, filling, settled>>

Made == 1 .. Len(objects)
Self == Made \cup {None}   \* what a frame may be running as; None is the top level

Greatest(S) == {i \in S : \A j \in S : j <= i}
Earliest(S) == {i \in S : \A j \in S : i <= j}

-----------------------------------------------------------------------------
(* The prototypes of an object, itself included; and its boundary.         *)

Line(objs) ==
  LET line[o \in 1 .. Len(objs)] ==
        {o} \cup IF objs[o].proto = None THEN {} ELSE line[objs[o].proto]
  IN line

Boundary(objs, o) ==
  LET drawn == {a \in Line(objs)[o] : objs[a].exports # None} IN
  IF drawn = {} THEN None ELSE objs[CHOOSE a \in Greatest(drawn) : TRUE].exports

Listed(l, n) == l # None /\ n \in array[l]

-----------------------------------------------------------------------------
(* The slots of one object.  Slots are numbered as they are made, which is *)
(* how a pointer to one is modelled; the list is searched newest first.    *)

InList(ob, n) == {i \in DOMAIN ob.slots : ob.slots[i].name = n}

\* The index holds slots in the order they were put there: the probe for a
\* name meets the one put first.
Hits(ob, n) == {j \in DOMAIN ob.held : ob.slots[ob.held[j]].name = n}

IndexFind(ob, n) == {ob.held[j] : j \in Earliest(Hits(ob, n))}

\* The slot of n on the object itself: the empty set, or the set of the one found.
Own(ob, n) == IF ob.seats # 0 THEN IndexFind(ob, n) ELSE Greatest(InList(ob, n))

\* The first of MinSeats, 2 * MinSeats, 4 * MinSeats ... that is not below enough.
Doubling[k \in Nat] == IF k = 0 THEN MinSeats ELSE 2 * Doubling[k - 1]
Doubled(enough) ==
  LET k == CHOOSE k \in 0 .. enough :
             Doubling[k] >= enough /\ (k = 0 \/ Doubling[k - 1] < enough) IN
  Doubling[k]

\* Mutant of Rebuilt: the slots put in the order they were made.
RebuiltOldestFirst(ob) ==
  [ob EXCEPT !.seats = Doubled(2 * Len(ob.slots)),
             !.held = [i \in DOMAIN ob.slots |-> i]]

\* The index made again from the list, newest slot first.
Rebuilt(ob) ==
  [ob EXCEPT !.seats = Doubled(2 * Len(ob.slots)),
             !.held = [i \in DOMAIN ob.slots |-> Len(ob.slots) + 1 - i]]

\* A new slot joins the list, then the index: built over the threshold, grown
\* past half, or put to.  A rebuild that gets no memory leaves it as it is.
WithSlot(ob, slot, got) ==
  LET longer == [ob EXCEPT !.slots = Append(@, slot)]
      rebuilt == IF got THEN Rebuilt(longer) ELSE longer
      size == Len(longer.slots) IN
  IF ob.seats = 0 THEN IF size > Threshold THEN rebuilt ELSE longer
  ELSE IF 2 * size > ob.seats THEN rebuilt
  ELSE [longer EXCEPT !.held = Append(@, size)]

\* Whether a slot of that name made on o now would be reachable from outside.
ExportedOn(objs, o, n) == Boundary(objs, o) = None \/ Listed(Boundary(objs, o), n)

\* Binds n on object o: the slot it has, or one made under the boundary in force.
Define(o, n, within, got) ==
  LET ob == objects[o]
      found == Own(ob, n)
      slot == [name |-> n, exported |-> ExportedOn(objects, o, n), within |-> within] IN
  [objects EXCEPT ![o] =
     IF found # {}
     THEN [ob EXCEPT !.slots = [i \in DOMAIN @ |-> IF i \in found THEN [@[i] EXCEPT !.within = within]
                                                   ELSE @[i]]]
     ELSE WithSlot(ob, slot, got)]

-----------------------------------------------------------------------------
(* Lookup, and who may reach what it finds.                                *)

\* Where a lookup that begins at o finds n: a set of at most one <<object, slot>>.
Lookup(o, n) ==
  LET holders == {a \in Line(objects)[o] : Own(objects[a], n) # {}} IN
  UNION {{a} \X Own(objects[a], n) : a \in Greatest(holders)}

SlotAt(found) == objects[found[1]].slots[found[2]]

Inside(self, o) == self # None /\ self \in Line(objects)[o]

MayReach(found, self, receiver) == SlotAt(found).exported \/ Inside(self, receiver)

\* Whether o:n sent by self is answered, which is what respondsTo says of it.
RespondsTo(self, o, n) == \E found \in Lookup(o, n) : MayReach(found, self, o)

\* The names that o:slots answers.
Slots(self, o) ==
  {objects[o].slots[i].name :
     i \in {i \in DOMAIN objects[o].slots : objects[o].slots[i].exported \/ self = o}}

-----------------------------------------------------------------------------
(* Messages that change something.  self is what the sending frame runs as. *)

Blank(proto) ==
  [proto |-> proto, slots |-> <<>>, seats |-> 0, held |-> <<>>, exports |-> None]

SlotsMade == Cardinality(UNION {{o} \X DOMAIN objects[o].slots : o \in Made})

Idle == [within |-> FALSE, names |-> {}]

Init ==
  /\ objects = <<Blank(None)>>
  /\ array \in [List -> SUBSET Name]
  /\ filling = Idle
  /\ settled = {1}

\* proto:new, and proto:new(dictionary) with names for keys, which it then binds.
New(self, proto, names) ==
  /\ filling.names = {}
  /\ Len(objects) < MaxObjects /\ SlotsMade + Cardinality(names) <= MaxSlots
  /\ objects' = Append(objects, Blank(proto))
  /\ filling' = IF names = {} THEN Idle ELSE [within |-> Inside(self, proto), names |-> names]
  /\ settled' = settled \cup {Len(objects) + 1}
  /\ UNCHANGED array

\* The next slot of the dictionary that new was called with.
FillSlot(n, got) ==
  /\ n \in filling.names
  /\ objects' = Define(Len(objects), n, filling.within, got)
  /\ filling' = IF filling.names = {n} THEN Idle ELSE [filling EXCEPT !.names = @ \ {n}]
  /\ UNCHANGED <<array, settled>>

\* Mutant of MayBind: the prototypes are not asked for the name.
MayBindOwn(self, o, n) ==
  \/ self = o
  \/ Own(objects[o], n) # {}
  \/ ExportedOn(objects, o, n)
  \/ Inside(self, o)

MayBind(self, o, n) ==
  LET here == Lookup(o, n) IN
  \/ self = o
  \/ IF here # {} THEN \A found \in here : SlotAt(found).exported ELSE ExportedOn(objects, o, n)
  \/ Inside(self, o)

\* o:n := value
SetSlot(self, o, n, got) ==
  /\ filling.names = {}
  /\ MayBind(self, o, n)
  /\ Own(objects[o], n) # {} \/ SlotsMade < MaxSlots
  /\ objects' = Define(o, n, Inside(self, o), got)
  /\ UNCHANGED <<array, filling, settled>>

\* Mutant of SetExports: slots the object has already keep their bit.
SetExportsLater(o, l) == [objects EXCEPT ![o].exports = l]

SetExports(o, l) ==
  [objects EXCEPT ![o].exports = l,
                  ![o].slots = [i \in DOMAIN @ |->
                     [@[i] EXCEPT !.exported = Listed(l, objects[o].slots[i].name)]]]

\* What takes its boundary from the line that o drew, or inherits.
Under(o) ==
  {d \in Made : /\ o \in Line(objects)[d]
                /\ \A a \in Line(objects)[d] : a > o => objects[a].exports = None}

\* o:exports(l)
Exports(self, o, l) ==
  /\ filling.names = {}
  /\ objects[o].exports # None => self = o
  /\ objects' = SetExports(o, l)
  /\ settled' = (settled \ {d \in Under(o) : objects[d].slots # <<>>}) \cup {o}
  /\ UNCHANGED <<array, filling>>

\* The array a boundary was drawn with is the program's, and may be added to.
AddToList(l, n) ==
  /\ filling.names = {} /\ n \notin array[l]
  /\ array' = [array EXCEPT ![l] = @ \cup {n}]
  /\ settled' = settled \ {d \in Made : Boundary(objects, d) = l /\ objects[d].slots # <<>>}
  /\ UNCHANGED <<objects, filling>>

Got == IF CallocFails THEN BOOLEAN ELSE {TRUE}

\* Senders that o can tell apart: any other object is to it as the top level is.
SendersTo(o) == Line(objects)[o] \cup {None}

Next ==
  \/ \E proto \in Made, names \in SUBSET Name :
       \E self \in SendersTo(proto) : New(self, proto, names)
  \/ \E n \in Name, got \in Got : FillSlot(n, got)
  \/ \E o \in Made, n \in Name, got \in Got :
       \E self \in SendersTo(o) : SetSlot(self, o, n, got)
  \/ \E o \in Made, l \in List : \E self \in {o, None} : Exports(self, o, l)
  \/ \E l \in List, n \in Name : AddToList(l, n)

Spec == Init /\ [][Next]_vars

-----------------------------------------------------------------------------
(* Properties.                                                             *)

\* Whether the index has kept pace with the list: it has unless a growth was refused.
Complete(ob) == ob.seats # 0 => 2 * Len(ob.slots) <= ob.seats

\* The index of an object never disagrees with its list: it answers the newest
\* slot of a name or, where a growth was refused (object.c:661), nothing; and it
\* answers everything, in a table at most half full, when it has kept pace.
IndexAgrees ==
  \A o \in Made, n \in Name :
    LET ob == objects[o] IN
    /\ Own(ob, n) \subseteq Greatest(InList(ob, n))
    /\ Complete(ob) => Own(ob, n) = Greatest(InList(ob, n))
    /\ 2 * Len(ob.held) <= ob.seats

\* The boundary in force is what every reader sees: of an object whose line was
\* drawn before its slots were made, exactly the listed names can be sent from
\* outside, are answered by slots, and are admitted by respondsTo (vm.c:801,
\* builtins.c:3883, 4033).
SurfaceAgrees ==
  \A o \in settled, n \in Name :
    (filling.names = {} /\ Complete(objects[o]) /\ InList(objects[o], n) # {}) =>
      \A self \in Self :
        LET open == ExportedOn(objects, o, n) IN
        /\ RespondsTo(self, o, n) <=> open \/ Inside(self, o)
        /\ n \in Slots(self, o) <=> open \/ self = o

\* What was written inside an object to a slot that is private is overwritten by
\* nothing outside it, whether the name is found on the object or on a prototype
\* (vm.c:1004).
OutsidersKeepOff ==
  [][\A o \in Made : \A i \in DOMAIN objects[o].slots :
       objects[o].slots[i].within /\ ~objects[o].slots[i].exported =>
         objects'[o].slots[i].within]_vars

=============================================================================
