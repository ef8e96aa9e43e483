---------------------------- MODULE MCHarborCache ----------------------------
(***************************************************************************)
(* Two requests, each for an image of two chunks or for a search, whose    *)
(* result is of two files, the image and an empty one, or of two chunks.   *)
(* Instead of a file the file-server may answer one chunk of something     *)
(* else, an error text or what is left of the image.                       *)
(***************************************************************************)
EXTENDS HarborCache, TLC

CONSTANTS image, empty, both, none

Search == [op |-> "search_result", file |-> "NONE"]
View(f) == [op |-> "view_file", file |-> f]
Get(f) == [op |-> "get_file", file |-> f]

MCJobs == {Search, View(image), Get(image)}
MCParts == (image :> 2) @@ (empty :> 0)
MCOthers == (image :> {1}) @@ (empty :> {})
MCFilesOf == (both :> <<empty, image>>) @@ (none :> <<>>)
MCPages == (both :> 1) @@ (none :> 2)

RequestSymmetry == Permutations(Requests)
=============================================================================
