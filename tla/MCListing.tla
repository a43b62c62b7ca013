------------------------------ MODULE MCListing ------------------------------
EXTENDS Listing, TLC

CONSTANTS a, b, c
MCLength == a :> 1 @@ b :> 2 @@ c :> 3
=============================================================================
