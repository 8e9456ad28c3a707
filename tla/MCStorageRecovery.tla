------------------------- MODULE MCStorageRecovery -------------------------
(***************************************************************************)
(* Two tabs that share the journal.                                        *)
(***************************************************************************)
EXTENDS StorageRecovery, TLC

CONSTANTS here, there,   \* the tabs
          one, two       \* the uploads

TwoTabs == {here, there}
OneTab == {here}
OneUpload == {one}
TwoUploads == {one, two}

\* The tabs differ in what their users do; the upload ids are random.
Symmetric == Permutations(TwoUploads)
=============================================================================
