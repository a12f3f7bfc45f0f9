----------------------------- MODULE MCBTHomeHub -----------------------------
(***************************************************************************)
(* BTHomeHub for TLC: a device in the clear with two entities of the same  *)
(* type, a device with a key, and a second device set up with the first    *)
(* one's sender id.  They may hear, in any order and at any time, whole    *)
(* payloads, one cut short, ones they cannot read, old and new counters,   *)
(* and frames that are too short or meant for somebody else.               *)
(***************************************************************************)
EXTENDS BTHomeHub, TLC

CONSTANTS plain, sealed, twin, temp, low, high

Id == [kind |-> "id"]
Button(e) == [kind |-> "button", what |-> e]
Reading(t, v) == [kind |-> "reading", type |-> t, value |-> v]

MCEncrypted == (plain :> FALSE) @@ (sealed :> TRUE) @@ (twin :> FALSE)
MCSlotsOf   == (plain :> {[type |-> temp, index |-> 1], [type |-> temp, index |-> 2]})
                 @@ (sealed :> {}) @@ (twin :> {})
MCTimeoutOf == (plain :> 1) @@ (sealed :> 2) @@ (twin :> 0)
MCSenderOf  == (plain :> <<1, 2>>) @@ (sealed :> <<1, 3>>) @@ (twin :> <<1, 2>>)
MCListed    == <<plain, sealed, twin>>
MCValues    == {low, high}

\* A frame in the clear, from the sender of the plain device.
Clear(objs, id, intact, header, isSealed) ==
  [sender |-> <<1, 2>>, length |-> 9,
   objs |-> objs, id |-> id, intact |-> intact, header |-> header,
   sealed |-> isSealed, complete |-> TRUE, authentic |-> FALSE, counter |-> 0,
   padded |-> FALSE, size |-> 2, tail |-> 0]

Two(v, w) == <<Reading(temp, v), Reading(temp, w), Id>>

PlainFrames ==
  {Clear(Two(low, high), 0, TRUE, TRUE, FALSE),
   Clear(<<Button("press"), Id>>, 1, TRUE, TRUE, FALSE),
   Clear(<<Reading(temp, high), Button("none"), Button("hold")>>, NoId, TRUE, TRUE, FALSE),
   Clear(Two(high, low), 1, FALSE, TRUE, FALSE),
   Clear(<<>>, NoId, TRUE, FALSE, FALSE),
   Clear(<<>>, NoId, TRUE, TRUE, TRUE)}

\* From the sender with the key: good payloads, one that decrypts to an invalid
\* header, one to objects cut short, and a frame in the clear.
Locked(counter, intact, header) ==
  [Clear(<<Button("press")>>, NoId, intact, header, TRUE) EXCEPT
     !.sender = <<1, 3>>, !.authentic = TRUE, !.counter = counter]

SealedFrames ==
  {Locked(0, TRUE, TRUE), Locked(1, TRUE, TRUE), Locked(1, FALSE, TRUE), Locked(1, TRUE, FALSE),
   [Clear(<<>>, NoId, TRUE, TRUE, FALSE) EXCEPT !.sender = <<1, 3>>]}

\* Of no concern to any device.
Foreign ==
  {[Clear(Two(high, high), 1, TRUE, TRUE, FALSE) EXCEPT !.sender = <<1, 4>>],
   [Clear(Two(high, high), 1, TRUE, TRUE, FALSE) EXCEPT !.length = MinLength - 1]}

MCFrames == PlainFrames \cup SealedFrames \cup Foreign
=============================================================================
