---------------------------- MODULE MCRktClient ----------------------------
(* Configurations of rkt with which TLC checks RktClient. *)
EXTENDS RktClient

NoStoreArgs == <<>>
StoreOnly   == <<"--store-only">>
============================================================================
