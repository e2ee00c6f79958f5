-------------------------- MODULE MCPacketEncoding --------------------------
(* TLC instance of PacketEncoding. *)
EXTENDS PacketEncoding

\* No character, one, several; a character with its highest bit set.
SomeNames == {<<>>, <<82>>, <<82, 195, 182, 98, 111>>}

\* Of a client that is not welcomed, of the first, and of several bytes.
SomeIds == {-1, 0, 300}
=============================================================================
