------------------------------- MODULE MCVoice -------------------------------
(* Boxes for VoiceMessages: one with every folder, one without "old", and   *)
(* one of another tenant.                                                   *)
EXTENDS VoiceMessages, TLC

CONSTANTS full, bare, foreign, home, away, i1, i2, i3

MCTenantOf == [x \in Phones \union Boxes |-> IF x = foreign THEN away ELSE home]
MCFolders == [b \in Boxes |-> IF b = full THEN FolderTypes ELSE {"new"}]
MCIds == {<<i1>>, <<i2>>, <<i3, i3>>}
MCKeys == {<<full, <<i1>>>>, <<full, <<i2>>>>, <<bare, <<i3, i3>>>>, <<foreign, <<i3, i3>>>>}
SameKind == Permutations({i1, i2})
=============================================================================
