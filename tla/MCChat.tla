-------------------------------- MODULE MCChat --------------------------------
(***************************************************************************)
(* Instances of Chat for TLC.                                              *)
(***************************************************************************)
EXTENDS Chat

CONSTANTS u1, u2, u3

\* The first members are alike but for their flag.
MemberSymmetry == Permutations(InitMembers \ InitTextOnly)

Plain(text, fields) ==
  [text |-> text, fields |-> fields, big |-> {}, long |-> FALSE, fits |-> TRUE]

\* A text, an image that is too large, a text that is too long, a reply that is only
\* a reply.
Gated ==
    {Plain(TRUE, {}),
     [Plain(FALSE, {"image"}) EXCEPT !.big = {"image"}],
     [Plain(TRUE, {}) EXCEPT !.long = TRUE, !.fits = FALSE],
     Plain(FALSE, {"reply"})}

\* A reaction, a text that is a reply with a quote, a text that needs a link.
ReactionAndReply ==
    {Plain(FALSE, {"reaction"}),
     Plain(TRUE, {"reply", "quote"}),
     [Plain(TRUE, {}) EXCEPT !.fits = FALSE]}
===============================================================================
