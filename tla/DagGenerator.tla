--------------------------- MODULE DagGenerator ---------------------------
(***************************************************************************)
(* Freezing a build graph: what CompileDag makes of the JSON a frontend    *)
(* wrote.  The nodes get a guid, are sorted by it and every index of the   *)
(* JSON is remapped.  A JSON object is a record that has the fields it     *)
(* has; a field of the wrong type counts as absent, as in the Find...Value *)
(* helpers.  Strings, paths and digests are values; positions count from 1.*)
(***************************************************************************)
EXTENDS Naturals, Sequences, FiniteSets, Functions, SequencesExt, Sorting

\* FindStringValue, FindArrayValue, FindObjectValue, FindIntValue,
\* GetNodeFlagBool
Has(object, key) == key \in DOMAIN object
Find(object, key, default) == IF Has(object, key) THEN object[key] ELSE default
FindArray(object, key) == Find(object, key, <<>>)

---------------------------------------------------------------------------
(* Node guids *)

FindText(object, key) == IF Has(object, key) THEN <<object[key]>> ELSE <<>>

\* Texts are hashed one behind the other, with nothing between them.
HashedText(node) ==
    IF FindArray(node, "Outputs") # <<>>
    THEN Append(node.Outputs, "salt for outputs")
    ELSE FindText(node, "Action") \o FindArray(node, "Inputs")
           \o FindText(node, "Annotation") \o <<"salt for legacy">>

HasNothingToHash(node) ==
    /\ FindArray(node, "Outputs") = <<>>
    /\ ~Has(node, "Action") /\ ~Has(node, "Inputs") /\ ~Has(node, "Annotation")

\* digest maps a text to the number its digest is.
GuidTable(json, digest) ==
    [i \in DOMAIN json.Nodes |->
        [digest |-> digest[HashedText(json.Nodes[i])], node |-> i]]

SortedGuidTable(json, digest) ==
    LET table == GuidTable(json, digest)
    IN  Sorted(table, [e \in ToSet(table) |-> e.digest])

GuidsCollide(order) ==
    \E k \in 2 .. Len(order) : order[k - 1].digest = order[k].digest

RemapTable(order) ==
    [i \in DOMAIN order |-> CHOOSE k \in DOMAIN order : order[k].node = i]

---------------------------------------------------------------------------
(* Nodes *)

ActionTypeOf(node) ==
    Find(node, "ActionType",
         IF Has(node, "WriteTextFilePayload") THEN "WriteTextFile" ELSE "RunShellCommand")

NodeIsValid(node) ==
    /\ Has(node, "WriteTextFilePayload") <=> ActionTypeOf(node) = "WriteTextFile"
    /\ ActionTypeOf(node) \in {"RunShellCommand", "WriteTextFile", "CopyFiles"}
    /\ ActionTypeOf(node) = "CopyFiles" =>
         Len(FindArray(node, "Inputs")) = Len(FindArray(node, "Outputs"))

FrozenAction(node) ==
    CASE ActionTypeOf(node) = "RunShellCommand" -> FindText(node, "Action")
      [] ActionTypeOf(node) = "WriteTextFile" -> <<node.WriteTextFilePayload>>
      [] OTHER -> <<>>

ToBuildDependencies(node) ==
    IF Has(node, "ToBuildDependencies") THEN node.ToBuildDependencies
    ELSE FindArray(node, "Deps")

WriteIndices(indices, remap) == [k \in DOMAIN indices |-> remap[indices[k]]]

NodeFlags(node) ==
    {f \in {"AllowUnexpectedOutput", "AllowUnwrittenOutputFiles",
            "BanContentDigestForInputs"} : Find(node, f, FALSE)}
      \cup {f \in {"OverwriteOutputs"} : Find(node, f, TRUE)}
      \cup {f \in {"CacheableByLeafInputs"} :
                Find(node, "CachingMode", "") = "ByLeafInputs"}

\* The frozen node at position k; the rest of its fields are copied as well.
WriteNode(json, order, k) ==
    LET i == order[k].node
        node == json.Nodes[i]
        remap == RemapTable(order)
    IN  [guid |-> order[k].digest,
         action |-> FrozenAction(node),
         annotation |-> Find(node, "Annotation", ""),
         toBuild |-> WriteIndices(ToBuildDependencies(node), remap),
         toUse |-> WriteIndices(FindArray(node, "ToUseDependencies"), remap),
         inputs |-> FindArray(node, "Inputs"),
         mightInclude |-> FindArray(node, "FilesThatMightBeIncluded"),
         outputs |-> FindArray(node, "Outputs"),
         outputDirs |-> FindArray(node, "TargetDirectories"),
         ignored |-> FindArray(node, "CachingInputIgnoreList"),
         env |-> FindArray(node, "Env"),
         allowed |-> FindArray(node, "AllowedOutputSubstrings"),
         scanner |-> Find(node, "ScannerIndex", 0),
         flags |-> NodeFlags(node),
         originalIndex |-> i]

---------------------------------------------------------------------------
(* The rest of the graph *)

\* Only what is hashed decides whether two scanners share their results.
WriteScanner(scanner) ==
    [guid |-> <<scanner.Kind>> \o scanner.IncludePaths,
     keywords |-> IF scanner.Kind = "generic" THEN FindArray(scanner, "Keywords") ELSE <<>>]
ScannerIsValid(scanner) ==
    /\ Has(scanner, "Kind") /\ scanner.Kind \in {"cpp", "generic"}
    /\ Has(scanner, "IncludePaths")

SharedResourceIsValid(resource) == Has(resource, "Annotation")
WriteSharedResource(resource) ==
    [annotation |-> resource.Annotation,
     create |-> FindText(resource, "CreateAction"),
     destroy |-> FindText(resource, "DestroyAction"),
     env |-> FindArray(resource, "Env")]

GraphIsValid(json) ==
    /\ \A s \in ToSet(FindArray(json, "Scanners")) : ScannerIsValid(s)
    /\ \A r \in ToSet(FindArray(json, "SharedResources")) : SharedResourceIsValid(r)

WriteNamedNodes(json, remap) ==
    [k \in DOMAIN FindArray(json, "NamedNodes") |->
        [json.NamedNodes[k] EXCEPT !.node = remap[@]]]

WriteGraph(json, nodes, remap, signatures) ==
    [nodes |-> nodes,
     signatures |-> signatures,
     named |-> WriteNamedNodes(json, remap),
     defaults |-> WriteIndices(json.DefaultNodes, remap),
     scanners |-> [s \in DOMAIN FindArray(json, "Scanners") |-> WriteScanner(json.Scanners[s])],
     resources |-> [r \in DOMAIN FindArray(json, "SharedResources") |->
                       WriteSharedResource(json.SharedResources[r])],
     implicitDirs |-> FindArray(json, "DirectoriesCausingImplicitDependencies")]
===========================================================================
