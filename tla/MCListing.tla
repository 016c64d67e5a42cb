----------------------------- MODULE MCListing -----------------------------
(* Instances of Listing for TLC.                                           *)
EXTENDS Listing, TLC

AllLists == Site \cup Exports
=============================================================================
