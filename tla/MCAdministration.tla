--------------------------- MODULE MCAdministration ---------------------------
(* Small instances of Administration for TLC: two sessions of an admin, one *)
(* of a member, a guest and an id not yet taken.  Each behaviour mixes the  *)
(* calls of one set of MCTraffic.                                           *)
EXTENDS Administration, TLC

CONSTANTS r1, r2, r3, u1, u2, u3, u4, h1, h2, h3, h4

MCHandle0 == u1 :> h1 @@ u2 :> h2 @@ u3 :> h3 @@ u4 :> None
MCOwner0 == <<u1, u1, u2, None>>
MCRole0 == u1 :> "admin" @@ u2 :> "member" @@ u3 :> "guest" @@ u4 :> None

MCTraffic ==
    {{"revoke", "logout", "sessions"}, {"revoke", "expiry"},
     {"bans", "revoke"}, {"bans", "expiry"}, {"stats", "expiry"}, {"bans", "ban", "role"},
     {"stats", "roster", "logout", "kick"},
     {"register", "login", "device"},
     {"dm", "group"}, {"dm", "rooms", "history", "kick"},
     {"typing", "kick", "clock"}, {"typing", "delete_channel"},
     {"list_workspaces", "get_workspace", "list_channels", "list_invites", "list_audit", "kick"},
     {"get_channel", "list_overrides", "delete_channel", "ban"},
     {"rename", "kick"}, {"create_channel", "rename_channel", "delete_channel"},
     {"set_override", "delete_override", "delete_channel"}, {"set_override", "kick"},
     {"create_invite", "revoke_invite", "role"},
     {"add", "kick"}}

MCSubjects == {u2, "guest"}

\* Requests are interchangeable.
Sym == Permutations(Requests)
=============================================================================
