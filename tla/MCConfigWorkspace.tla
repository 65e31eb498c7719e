-------------------------- MODULE MCConfigWorkspace --------------------------
(* The page of the API ontology, with two families of which only the       *)
(* global one has a document of each kind.                                 *)
EXTENDS ConfigWorkspace

Document(kind, family, status) ==
    [kind |-> kind, family |-> family, version |-> 1, status |-> status, text |-> "a"]

Bundle(status) == <<Document("api-ontology", 1, status),
                    Document("memory-ontology", 1, "approved"),
                    Document("policy-profile", 1, "approved")>>

MCStartDocs == {<<>>, Append(Bundle("approved"), Document("api-ontology", 2, "validated"))}
=============================================================================
