----------------------------- MODULE MCQLSender -----------------------------
(* Small instances of QLSender for TLC. *)
EXTENDS QLSender

\* What an earlier job may have left unread: nothing, its last notifications,
\* or a stale error.
MCLeftovers == {<<>>, <<"completed", "receiving">>, <<"error">>}
=============================================================================
