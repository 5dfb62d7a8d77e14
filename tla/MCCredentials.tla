---------------------------- MODULE MCCredentials ----------------------------
(* One name, which belongs to an endpoint of each of two tenants, one after *)
(* the other; a line in each, with two users for the first.  One password   *)
(* holds a colon, and its end is the password of another setting.           *)
EXTENDS PhoneCredentials, TLC

CONSTANTS n, o, s, w, x, e, f, l, m, ann, ben, cat, home, away

MCPasswords == {<<s>>, <<x>>, <<w, s>>}
MCTenantOf == [a \in Endpoints \union Lines \union Users |->
                 IF a \in {e, l, ann, ben} THEN home ELSE away]

(* Only the home tenant has two users, and nothing tells them apart.        *)
MCSymmetry == Permutations({ann, ben})

Setting(name, username, password) ==
    [name |-> name, username |-> username, password |-> password]
MCSettings ==
    {Setting(n, n, password) : password \in MCPasswords \union {None}} \union
    {Setting(n, o, <<s>>), Setting(o, n, <<s>>)}
Header(scheme, sipUser, xsiUser, password) ==
    [scheme |-> scheme, sipUser |-> sipUser, xsiUser |-> xsiUser, password |-> password]
MCHeaders ==
    {Header("BroadWorksSIP", n, xsiUser, <<s>>) : xsiUser \in {<<>>, <<w>>, <<w, w>>}} \union
    {Header("BroadWorksSIP", n, <<w>>, <<x>>), Header("BroadWorksSIP", n, <<w>>, <<w, s>>),
     Header("BroadWorksSIP", None, <<w>>, <<s>>), Header("Basic", n, <<w>>, <<s>>)}
=============================================================================
