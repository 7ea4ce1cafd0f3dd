--------------------------- MODULE MCProfileFilter ---------------------------
(* The filter on short lists of a few profiles.                            *)
EXTENDS ProfileFilter

AllKeys == [type : Types, address : Addresses, bean : Beans]
=============================================================================
