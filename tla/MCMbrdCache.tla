----------------------------- MODULE MCMbrdCache -----------------------------
(* Small instances of MbrdCache: what the directory has, what is looked up. *)
EXTENDS MbrdCache
CONSTANT client

OneClient == {client}

Record(types, guid, id, name, kerberos, node) ==
  [types |-> types, guid |-> <<"guid", guid>>, sid |-> None,
   id |-> IF id = "" THEN None ELSE <<"id", id>>,
   name |-> <<"name", name>>, node |-> <<"node", node>>, negative |-> FALSE,
   kerberos |-> IF kerberos = "" THEN None ELSE <<"principal", kerberos>>]

\* A user of one node, the same one with another ID or none, and another node's
\* user with the same name and the first one's ID.
Users == {Record({"user"}, "A", "501", "ann", "", "local"),
          Record({"user"}, "A", "502", "ann", "", "local"),
          Record({"user"}, "A", "", "ann", "", "local"),
          Record({"user"}, "B", "501", "ann", "", "ldap")}
By(f, types, value, kernel) ==
  [field |-> f, types |-> types, value |-> value, kernel |-> kernel]
UserLookups == {By("id", {"user", "computer"}, <<"id", "501">>, FALSE),
                By("name", {"user", "computer"}, <<"name", "ann">>, FALSE),
                By("guid", Type, <<"guid", "A">>, FALSE),
                By("guid", Type, <<"guid", "A">>, TRUE)}

\* A user with a Kerberos principal.
Principals == {Record({"user"}, "A", "501", "ann", "ann@R", "local")}
PrincipalLookups == {By("kerberos", {"user", "computer"}, <<"principal", "ann@R">>, FALSE)}
=============================================================================
