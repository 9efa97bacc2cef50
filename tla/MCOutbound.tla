----------------------------- MODULE MCOutbound -----------------------------
(* Messages and replies that do not all fit the socket at once, and a       *)
(* stream buffer that is filled more than once.                             *)
EXTENDS Outbound

MCPublishes == <<2, 3>>
MCReplies == <<"static", "vector">>
=============================================================================
