---------------------------- MODULE BTHomePayload ----------------------------
(***************************************************************************)
(* What the objects of one BTHome payload mean to a device, whichever way  *)
(* they are read: which entity takes which reading, which packet id the    *)
(* payload has and which events it carries.                                *)
(*                                                                         *)
(* A payload is a sequence of objects.  An object is a record whose kind   *)
(* is "id", "button", "dimmer", "command" or "reading": a measurement, a   *)
(* binary state or a text, with a type and a value.                        *)
(***************************************************************************)
EXTENDS Integers, Sequences, FiniteSets

CONSTANTS
  NoValue,      \* nothing pending, nothing published
  MaxEvents     \* MAX_EVENTS (12)

ASSUME EventsAssumption == MaxEvents \in Nat

NoId == -1
EventKinds == {"button", "dimmer", "command"}

\* instance_of(): the how-manieth object of its type objs[k] is.
Instance(objs, k) ==
  Cardinality({j \in 1..k : objs[j].kind = "reading" /\ objs[j].type = objs[k].type})

\* A slot is an entity's place, [type, index].
Matches(objs, k, s) ==
  objs[k].kind = "reading" /\ objs[k].type = s.type /\ Instance(objs, k) = s.index

\* What a payload leaves in the slots: each reading goes to those set up for it.
Parsed(slots, objs) ==
  [s \in slots |->
     LET hits == {k \in DOMAIN objs : Matches(objs, k, s)}
     IN  IF hits = {} THEN NoValue ELSE objs[CHOOSE k \in hits : TRUE].value]

\* The elements of s at the places in at, in order.
InOrder(s, at) ==
  [n \in 1..Cardinality(at) |-> s[CHOOSE k \in at : Cardinality(at \cap 1..k) = n]]

Objects(f, kind) == InOrder(f.objs, {k \in DOMAIN f.objs : f.objs[k].kind = kind})

PacketId(f) == IF Objects(f, "id") # <<>> THEN f.id ELSE NoId

Readable(f) ==
  f.intact /\ \A kind \in EventKinds : Len(Objects(f, kind)) <= MaxEvents

\* The events of a kind, each with its place, and which of them fire.
Placed(f, kind) ==
  LET es == Objects(f, kind)
  IN  [k \in DOMAIN es |-> [kind |-> kind, place |-> k, what |-> es[k].what]]

IsReal(e) == e.kind = "command" \/ e.what # "none"

\* Buttons first, then dimmers, of which a None only takes a place, then
\* commands.
Firing(f) ==
  SelectSeq(Placed(f, "button") \o Placed(f, "dimmer") \o Placed(f, "command"),
            IsReal)
=============================================================================
