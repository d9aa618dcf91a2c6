---------------------------- MODULE MCPagination ----------------------------
(* Pagination of up to four objects in pages of two, for TLC. *)
EXTENDS Pagination

(* The list methods and filters whose page requests the API understands.    *)
FollowedRequest ==
    [operation : {"listDirectories"}, filter : {"none", "camelCase"}]
    \cup [operation : {"listOrganizations", "listObjects"}, filter : {"search"}]

VaultRequest == [operation : {"listObjects"}, filter : {"camelCase"}]
=============================================================================
