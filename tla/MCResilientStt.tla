--------------------------- MODULE MCResilientStt ---------------------------
(* Small instances of ResilientStt. *)
EXTENDS ResilientStt

MCScript == <<"audio", "commit", "audio", "audio">>
=============================================================================
