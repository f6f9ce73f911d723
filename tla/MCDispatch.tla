----------------------------- MODULE MCDispatch -----------------------------
(* TLC instance of Dispatch. *)
EXTENDS Dispatch, TLC

CONSTANTS shop, blog, users, id

(* The default, one origin, two, and none. *)
MCConfigs == {<<Star>>, <<shop>>, <<blog, shop>>, <<>>}

(* "/users", "/users/7", "/users/" and "/7/users" *)
MCPaths == {<<users>>, <<users, id>>, <<users, Blank>>, <<id, users>>}

(* "/users/7" itself, "/users/:x", "/:x/:y" and "/:x" *)
MCPatterns == {<<users, id>>, <<users, Param>>, <<Param, Param>>, <<Param>>}

(* Servers with the one route "/users/:x". *)
MCStartedWith ==
    {<<[kind |-> "regexHandler",
        route |-> [method |-> m, path |-> <<users, Param>>, target |-> t]]>> :
        m \in Methods, t \in Targets}

Symmetry == Permutations(Targets) \union Permutations(Methods)
=============================================================================
