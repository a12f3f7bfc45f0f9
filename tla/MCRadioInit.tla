----------------------------- MODULE MCRadioInit -----------------------------
(***************************************************************************)
(* RadioInit for TLC: settings with one pipe or two, fixed, dynamic or     *)
(* inherited, valid or not, and five pipes once; chips that refuse one     *)
(* register, that want ACTIVATE, that are clones.                          *)
(***************************************************************************)
EXTENDS RadioInit

CONSTANTS a, b, r, s

Pipe(first, rest, size, ack) ==
  [address |-> [first |-> first, rest |-> rest], size |-> size, ack |-> ack]

Hub(size, ack, pipes) == [size |-> size, ack |-> ack, pipes |-> pipes]

OnePipe == {Hub(Dynamic, TRUE, <<Pipe(a, r, size, Inherit)>>) : size \in {Inherit, 32}}
           \cup {Hub(32, FALSE, <<Pipe(a, r, Inherit, Inherit)>>)}

TwoPipes ==
  {Hub(Dynamic, TRUE, <<Pipe(a, r, Inherit, Inherit), Pipe(first, rest, size, ack)>>) :
     first \in {a, b}, rest \in {r, s}, size \in {Inherit, 8}, ack \in {Inherit, FALSE}}

FivePipes ==
  {Hub(32, FALSE, [n \in 1..5 |-> Pipe(<<a, n>>, r, IF n = 5 THEN Dynamic ELSE Inherit,
                                       IF n = 5 THEN TRUE ELSE Inherit)])}

AllSettings == OnePipe \cup TwoPipes \cup FivePipes

Kind(refused, needsActivate, bit0) ==
  [refused |-> refused, needsActivate |-> needsActivate, bit0 |-> bit0]

GoodKinds == {Kind({}, needsActivate, bit0) : needsActivate, bit0 \in BOOLEAN}

AllKinds == GoodKinds \cup {Kind({q}, FALSE, TRUE) : q \in Registers}

\* Everything with one fault, and two where the watchdog has to help.
MCTrials == [settings : AllSettings, kind : AllKinds, faults : {1}]
            \cup [settings : OnePipe, kind : GoodKinds, faults : {2}]

Undisturbed == [settings : OnePipe, kind : GoodKinds, faults : {0}]
=============================================================================
