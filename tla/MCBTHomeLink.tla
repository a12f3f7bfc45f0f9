---------------------------- MODULE MCBTHomeLink ----------------------------
(***************************************************************************)
(* BTHomeLink for TLC: a device in the clear and one with a key, and       *)
(* senders that broadcast to either a few payloads, each one or more       *)
(* events with or without a packet id among them.                          *)
(***************************************************************************)
EXTENDS BTHomeLink, TLC

CONSTANTS plain, sealed

Id == [kind |-> "id"]
Button(e) == [kind |-> "button", what |-> e]
Dimmer(e) == [kind |-> "dimmer", what |-> e]
Command(e) == [kind |-> "command", what |-> e]

MCListed    == <<plain, sealed>>
MCEncrypted == (plain :> FALSE) @@ (sealed :> TRUE)
MCSlotsOf   == (plain :> {}) @@ (sealed :> {})
Ageing      == (plain :> 1) @@ (sealed :> 1)
NeverAgeing == (plain :> 0) @@ (sealed :> 0)
MCSenderOf  == (plain :> <<1>>) @@ (sealed :> <<2>>)

PlainPayloads ==
  {<<Command("toggle"), Id, Button("none"), Dimmer("left")>>, <<Button("press")>>}

SealedPayloads == {<<Id, Button("press")>>, <<Dimmer("left"), Button("press")>>}

PlainSender ==
  [to |-> plain, payloads |-> PlainPayloads, padded |-> FALSE, tails |-> {0},
   clone |-> FALSE, quick |-> FALSE, most |-> 4, restarts |-> 1]

SealedSender ==
  [to |-> sealed, payloads |-> SealedPayloads, padded |-> TRUE, tails |-> {0},
   clone |-> FALSE, quick |-> FALSE, most |-> 2, restarts |-> 1]

\* On a pipe where the MIC may look like padding, heard through a clone.
HardSender == [SealedSender EXCEPT !.payloads = {<<Id, Button("press")>>},
                                   !.tails = {0, 1}, !.clone = TRUE,
                                   !.most = 3, !.restarts = 0]

AllSenders   == {PlainSender, SealedSender, HardSender}
TailSender   == {[SealedSender EXCEPT !.tails = {1}]}
RebootSender == {[SealedSender EXCEPT !.quick = TRUE]}
=============================================================================
