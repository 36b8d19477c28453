------------------------------ MODULE Materialize ------------------------------
(***************************************************************************)
(* Client.Materialize (internal/docker/cache.go): the source image behind  *)
(* a private tag becomes an image of Docker, and what Docker made of it is *)
(* compared with the source before a sandbox is created from it            *)
(* (internal/service Create, internal/runtimeio Adapter).  The owner of    *)
(* the tag's lock (CacheLocks, whose references are the tags) inspects,    *)
(* loads, inspects again, exports and compares, while anybody else may     *)
(* move or remove the tag in Docker.                                       *)
(***************************************************************************)
EXTENDS CacheLocks, Sequences

CONSTANTS
  Ids,            \* immutable image IDs of Docker
  Source,         \* the image of each tag: its config and the requested platform
  Archive         \* what Docker exports for an image ID

\* A config is [platform, diffs], an archive [config, manifests, layers, files]: the
\* diff IDs in order, the paths of the layers in order, and the files of the tar
\* in order, each [path, regular, hash] with the hash of its uncompressed bytes.
ASSUME MaterializeAssumption ==
  /\ None \notin Ids
  /\ \A i \in Ids : \A k \in DOMAIN Archive[i].files :
       LET f == Archive[i].files[k]
       IN  f.regular \in BOOLEAN /\ f = [path |-> f.path, regular |-> f.regular, hash |-> f.hash]

VARIABLES
  tag,            \* the image ID each tag points to
  step,           \* where an owner is in Materialize
  id,             \* the image ID it has inspected; at the end, what it returns
  want,           \* the tag of the image that a call is to create a sandbox of
  boxes           \* the tag and the image ID of every container created

work == <<tag, step, id, want, boxes>>
allVars == <<vars, work>>

-----------------------------------------------------------------------------
(* The comparison.                                                         *)

\* A variant that is the default of its architecture counts as none.
Plain(p) == IF <<p.arch, p.variant>> \in {<<"arm64", "v8">>, <<"amd64", "v1">>}
            THEN [p EXCEPT !.variant = ""] ELSE p

\* Defect: a layer is looked up by its diff ID, as an image library does it.
LayersByDiff(a) ==
  \A i \in DOMAIN a.layers :
    LET first == CHOOSE j \in DOMAIN a.layers :
          /\ a.config.diffs[j] = a.config.diffs[i]
          /\ \A k \in 1..(j - 1) : a.config.diffs[k] # a.config.diffs[i]
    IN  \E k \in DOMAIN a.files : a.files[k].path = a.layers[first] /\ a.files[k].hash = a.config.diffs[i]

\* verifyCacheLayers: the bytes of the archive's files, not what it says of them.
LayersVerified(a) ==
  LET Layers(path) == {i \in DOMAIN a.layers : a.layers[i] = path}
      Files(path) == {k \in DOMAIN a.files : a.files[k].path = path}
  IN  \A i \in DOMAIN a.layers :
        /\ \A j \in Layers(a.layers[i]) : a.config.diffs[j] = a.config.diffs[i]
        /\ \E k \in Files(a.layers[i]) :
             /\ Files(a.layers[i]) = {k} /\ a.files[k].regular
             /\ a.files[k].hash = a.config.diffs[i]

\* What verifyCache asks of an exported archive.
Verified(a, source) ==
  /\ a.config = source.config
  /\ Plain(a.config.platform) = Plain(source.platform)
  /\ a.manifests = 1 /\ Len(a.layers) = Len(a.config.diffs)
  /\ LayersVerified(a)

-----------------------------------------------------------------------------
(* The steps of an owner.  Each call of Docker may fail, or its context end. *)

At(c, s) == pc[c] = "owner" /\ step[c] = s
To(c, s, i) == step' = [step EXCEPT ![c] = s] /\ id' = [id EXCEPT ![c] = i]

Fail(c) ==
  /\ pc[c] = "owner" /\ step[c] # "end"
  /\ To(c, "end", None)
  /\ UNCHANGED <<vars, tag, want, boxes>>

\* A tag that is there is verified and not written again.
Inspect(c) ==
  /\ At(c, "inspect")
  /\ IF tag[ref[c]] = None THEN To(c, "load", None) ELSE To(c, "save", tag[ref[c]])
  /\ UNCHANGED <<vars, tag, want, boxes>>

\* ImageLoad of the archive written from the source: Docker gives it an ID of its
\* own, and the conversion may have lost something.
Load(c) ==
  /\ At(c, "load")
  /\ \E i \in Ids : tag' = [tag EXCEPT ![ref[c]] = i]
  /\ \/ To(c, "again", None)
     \/ To(c, "end", None)                     \* done, but reported as an error
  /\ UNCHANGED <<vars, want, boxes>>

InspectAgain(c) ==
  /\ At(c, "again")
  /\ IF tag[ref[c]] = None THEN To(c, "end", None) ELSE To(c, "save", tag[ref[c]])
  /\ UNCHANGED <<vars, tag, want, boxes>>

\* Defect: the export is asked for by the tag, and the ID is returned.
SaveTagged(c) ==
  /\ At(c, "save")
  /\ tag[ref[c]] # None /\ Verified(Archive[tag[ref[c]]], Source[ref[c]])
  /\ To(c, "end", id[c])
  /\ UNCHANGED <<vars, tag, want, boxes>>

\* verifyCache: ImageSave by the inspected ID, and the comparison.
Save(c) ==
  /\ At(c, "save")
  /\ Verified(Archive[id[c]], Source[ref[c]])
  /\ To(c, "end", id[c])
  /\ UNCHANGED <<vars, tag, want, boxes>>

\* Who else uses Docker moves the tag, or removes it.
Retag ==
  /\ \E r \in Refs, i \in Ids \cup {None} : tag' = [tag EXCEPT ![r] = i]
  /\ UNCHANGED <<vars, step, id, want, boxes>>

-----------------------------------------------------------------------------

\* Service.Create has resolved the image, and the store has validated it again.
Ask(c) ==
  /\ pc[c] = "idle" /\ step[c] = "none"
  /\ \E r \in Refs : Acquire(c, r) /\ want' = [want EXCEPT ![c] = r]
  /\ UNCHANGED <<tag, step, id, boxes>>

\* The steps of the lock.
Waits(c) ==
  /\ Take(c) \/ GiveUp(c) \/ OwnTooLate(c) \/ Cancel(c)
  /\ UNCHANGED work

Begin(c) == Own(c) /\ To(c, "inspect", None) /\ UNCHANGED <<tag, want, boxes>>

\* The deferred release; the prepared image is the ID.
Finish(c) ==
  /\ step[c] = "end" /\ Release(c)
  /\ To(c, IF id[c] = None THEN "none" ELSE "create", id[c])
  /\ UNCHANGED <<tag, want, boxes>>

\* Defect: the container is created from the tag.
CreateTagged(c) ==
  /\ step[c] = "create" /\ pc[c] = "idle"
  /\ To(c, "none", None)
  /\ boxes' = boxes \cup {<<want[c], i>> : i \in {tag[want[c]]} \ {None}}
  /\ UNCHANGED <<vars, tag, want>>

\* Adapter.Create, if nothing refuses it: a container of the prepared image.
Create(c) ==
  /\ step[c] = "create" /\ pc[c] = "idle"
  /\ To(c, "none", None)
  /\ boxes' \in {boxes, boxes \cup {<<want[c], id[c]>>}}
  /\ UNCHANGED <<vars, tag, want>>

Works(c) == Inspect(c) \/ Load(c) \/ InspectAgain(c) \/ Save(c) \/ Fail(c)

MInit ==
  /\ Init
  /\ tag \in [Refs -> Ids \cup {None}]
  /\ step = [c \in Callers |-> "none"] /\ id = [c \in Callers |-> None]
  /\ want = [c \in Callers |-> None] /\ boxes = {}

MNext ==
  \/ \E c \in Callers : Ask(c) \/ Waits(c) \/ Begin(c) \/ Works(c) \/ Finish(c) \/ Create(c)
  \/ Retag

MSpec == MInit /\ [][MNext]_allVars

\* As in CacheLocks; a call of Docker ends, if only with its context.
MFairness ==
  \A c \in Callers :
    /\ SF_allVars(Take(c) /\ UNCHANGED work)
    /\ WF_allVars(Begin(c)) /\ WF_allVars(OwnTooLate(c) /\ UNCHANGED work)
    /\ WF_allVars(Works(c)) /\ WF_allVars(Finish(c))

MFairSpec == MSpec /\ MFairness

-----------------------------------------------------------------------------
(* Properties.                                                             *)

\* Layer for layer, the archive has one regular file with the bytes that the
\* source's config names.
SameContent(a, source) ==
  /\ Len(a.layers) = Len(source.config.diffs)
  /\ \A i \in DOMAIN a.layers :
       /\ \E k \in DOMAIN a.files :
            a.files[k] = [path |-> a.layers[i], regular |-> TRUE, hash |-> source.config.diffs[i]]
       /\ \A k, l \in DOMAIN a.files :
            a.files[k].path = a.layers[i] /\ a.files[l].path = a.layers[i] => k = l

\* A sandbox is only ever created of an image that holds the content of its
\* source, whoever moved the tag meanwhile and whatever Docker made of the archive.
SandboxHasSource == \A b \in boxes : SameContent(Archive[b[2]], Source[b[1]])
=============================================================================
