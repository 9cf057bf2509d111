------------------------------- MODULE MCRalph -------------------------------
(* The instance of Ralph for TLC.                                            *)
EXTENDS Ralph

CodesOfRun == {"a", "b"}
NotesOfRun == {"old", "new"}
=============================================================================
