--------------------------- MODULE MCSiteLogUpload ---------------------------
(***************************************************************************)
(* Four uploads of one site.                                               *)
(***************************************************************************)
EXTENDS SiteLogUpload

CONSTANTS U1, U2, U3, U4

MCUploads == {U1, U2, U3, U4}

==============================================================================
