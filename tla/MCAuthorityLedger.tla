------------------------- MODULE MCAuthorityLedger -------------------------
(***************************************************************************)
(* What TLC has the Portal asked to sign, and the rewritings it tries: of  *)
(* each field of the core, its extra member, its shape, and each part of   *)
(* the signature.                                                          *)
(***************************************************************************)
EXTENDS AuthorityLedger

Ended(text, end) == [text |-> text, end |-> end]

\* Signed as it should be, for another key_id, for one second more, with a
\* number, with a final line feed the Portal does not notice.
MCRequests ==
    {[at |-> "none", to |-> "none"], [at |-> "key_id", to |-> Str("v2")],
     [at |-> "extra", to |-> "integer"], [at |-> "until", to |-> Ended(2, "newline")]}

MCDistortions ==
    [at : {"none"}, to : {"none"}]
    \union [at : {"key_id"}, to : {Str("v1"), Str("v2"), Absent}]
    \union [at : {"approver"}, to : {Str("someone"), Ended("portal", "unsafe"), Ended("portal", "newline")}]
    \union [at : {"cert"}, to : {Str("other_cert"), Absent, Ended("cert", "newline")}]
    \union [at : {"from"}, to : {Str(0), Ended(1, "newline"), Ended(1, "suffix")}]
    \union [at : {"until"}, to : {Str(3), Ended(2, "newline")}]
    \union [at : {"extra"},
            to : {"integer", "integral_float", "fraction", "null", "newline_key"}]
    \union [at : {"shape"}, to : {"array", "none"}]
    \union [at : {"hex"}, to : {"missing", "short", "spaced", "trailing"}]
    \union [at : {"scheme"}, to : {"hmac-sha256"}]
    \union [at : {"by"}, to : {"unregistered"}]
============================================================================
