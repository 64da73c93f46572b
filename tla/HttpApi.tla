------------------------------ MODULE HttpApi ------------------------------
(***************************************************************************)
(* The HTTP API as a whole: requests from arrival to answer (ApiBoundary), *)
(* and listings that a client reads page by page (Pagination).  A page is  *)
(* one request; what it says is up to the rows alone, so the two stand     *)
(* side by side, each with variables of its own.                           *)
(***************************************************************************)
EXTENDS ApiBoundary

CONSTANTS Collections, MaxRows, MaxAt, MaxChanges, Tags, Limits              \* of Pagination
VARIABLES kind, rows, pageChanges, cursor, got, asked, existed, steady, status  \* of Pagination

Listing == INSTANCE Pagination WITH changes <- pageChanges

pageVars == <<kind, rows, pageChanges, cursor, got, asked, existed, steady, status>>

\* A listing tells every row there was at its first page, none twice and in order; an
\* order's attempts as they were then; and refuses a cursor only for a cause.
ListingsAreWhole == Listing!ListingsAreWhole
=============================================================================
