-------------------------- MODULE MCCitationStream ---------------------------
(***************************************************************************)
(* Instances of CitationStream for TLC.                                    *)
(***************************************************************************)
EXTENDS CitationStream

MCSymbols == Filenames \cup {Open, Close, Space}
==============================================================================
