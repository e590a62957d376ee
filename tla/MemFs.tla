-------------------------------- MODULE MemFs --------------------------------
(***************************************************************************)
(* The file systems without a disk: the tree of tmpfs.c, the devices of     *)
(* devfs.c with chardev.c and chardev_vfs.c, and the fixed files of         *)
(* sysfs.c.  Nodes are blocks of the kernel heap: a freed block is used     *)
(* again for the next node.  Every operation on the tree is one step.       *)
(***************************************************************************)
EXTENDS Integers, Sequences, FiniteSets, SequencesExt, FiniteSetsExt

CONSTANTS
    TmpBlocks,     \* heap blocks that can hold a tmp_node_t, besides the root
    Names,      \* file names
    Handles,    \* vnodes users hold
    CharDevs,   \* registered devices: null, zero, random, urandom, full
    EntropyPool,   \* ENTROPY_POOL_SIZE, in reads of one unit
    MaxSize     \* bound on a file's size

ASSUME MemFsAssumption ==
    /\ TmpBlocks \subseteq Nat \ {0} /\ EntropyPool \in Nat \ {0} /\ MaxSize \in Nat
    /\ IsFiniteSet(Handles) /\ CharDevs \cap {"tmp", "none"} = {}

VARIABLES
    node,      \* block -> tmp_node_t
    children,  \* block -> children[], first to last
    handle,    \* vnodes in use
    serial_no, \* nodes created so far: tells a block's uses apart
    scribbled, \* history: a write went through a freed node
    dev_ref,   \* chardev_t refcount
    entropy    \* entropy_pool_index and entropy_estimate

TreeVars == <<node, children, handle, serial_no, scribbled>>
DevVars == <<dev_ref, entropy>>
MemFsVars == <<TreeVars, DevVars>>

Root == 0
NoNode == [kind |-> "free", name |-> "", parent |-> Root, size |-> 0, no |-> 0]
NoHandle == [kind |-> "none", at |-> 0, no |-> 0, stale |-> FALSE]
MaxNodes == 4    \* bound on nodes ever created
-----------------------------------------------------------------------------
LiveDirs == {b \in TmpBlocks \cup {Root} : node[b].kind = "dir"}
FreeBlocks == {b \in TmpBlocks : node[b].kind = "free"}
FreeHandles == {h \in Handles : handle[h].kind = "none"}

(* tmp_lookup: the first child of that name. *)
Children(d, n) == {i \in 1 .. Len(children[d]) : node[children[d][i]].name = n}

(* tmpnode_to_vnode *)
Vnode(b, no) == [kind |-> "tmp", at |-> b, no |-> no, stale |-> FALSE]

TmpLookup(h, d, n) ==
    /\ h \in FreeHandles /\ d \in LiveDirs /\ Children(d, n) # {}
    /\ LET b == children[d][Min(Children(d, n))] IN
       handle' = [handle EXCEPT ![h] = Vnode(b, node[b].no)]
    /\ UNCHANGED <<node, children, serial_no, scribbled, DevVars>>

(* tmp_create and tmp_mkdir with tmp_add_child: a name that exists is       *)
(* refused; the array of children is copied and grows by one.               *)
TmpCreate(h, d, n, kind) ==
    /\ h \in FreeHandles /\ d \in LiveDirs /\ FreeBlocks # {} /\ serial_no < MaxNodes
    /\ Children(d, n) = {}
    /\ LET b == Min(FreeBlocks) IN
       /\ node' = [node EXCEPT ![b] = [kind |-> kind, name |-> n, parent |-> d, size |-> 0, no |-> serial_no + 1]]
       /\ children' = [children EXCEPT ![d] = Append(@, b), ![b] = <<>>]
       /\ handle' = [handle EXCEPT ![h] = Vnode(b, serial_no + 1)]
    /\ serial_no' = serial_no + 1
    /\ UNCHANGED <<scribbled, DevVars>>

(* tmp_write: the data grows to offset + size in a new block; a gap is      *)
(* zeroed.  tmp_read changes nothing.                                       *)
TmpWrite(h, need) ==
    /\ handle[h].kind = "tmp" /\ node[handle[h].at].kind = "file"
    /\ node' = [node EXCEPT ![handle[h].at].size = Max({@, need})]
    /\ UNCHANGED <<children, handle, serial_no, scribbled, DevVars>>

(* tmp_write through the vnode of a node that tmp_unlink freed and nobody   *)
(* uses since: the node still says it is a file, and data that was freed    *)
(* with it is copied, freed again or written over.  What that hits in the   *)
(* heap is not modelled: the promises about the tree end there.             *)
TmpWriteFreed(h) ==
    /\ handle[h].kind = "tmp" /\ node[handle[h].at].kind = "free"
    /\ scribbled' = TRUE
    /\ UNCHANGED <<node, children, handle, serial_no, DevVars>>

(* Fault: the array is cut at its end instead of closed up. *)
WithoutChildFault(kids, i) == Front(kids)

WithoutChild(kids, i) == RemoveAt(kids, i)

(* tmp_unlink: only an empty directory or a file, whose node is freed even  *)
(* when a vnode still points to it.                                         *)
TmpUnlink(d, n) ==
    /\ d \in LiveDirs /\ Children(d, n) # {}
    /\ LET i == Min(Children(d, n))
           b == children[d][i]
       IN  /\ ~(node[b].kind = "dir" /\ children[b] # <<>>)
           /\ node' = [node EXCEPT ![b] = NoNode]
           /\ children' = [children EXCEPT ![d] = WithoutChild(@, i), ![b] = <<>>]
           /\ handle' = [h \in Handles |->
                            IF handle[h].kind = "tmp" /\ handle[h].at = b
                            THEN [handle[h] EXCEPT !.stale = TRUE] ELSE handle[h]]
    /\ UNCHANGED <<serial_no, scribbled, DevVars>>

(* tmp_release frees the vnode, not the node. *)
TmpRelease(h) ==
    /\ handle[h].kind = "tmp"
    /\ handle' = [handle EXCEPT ![h] = NoHandle]
    /\ UNCHANGED <<node, children, serial_no, scribbled, DevVars>>
-----------------------------------------------------------------------------

(* dev_lookup with chardev_vfs_find and chardev_to_vfs_node: a vnode and a  *)
(* reference, or, without memory, neither.                                  *)
DevLookup(h, d) ==
    /\ h \in FreeHandles
    /\ \/ /\ handle' = [handle EXCEPT ![h] = [NoHandle EXCEPT !.kind = d]]
          /\ dev_ref' = [dev_ref EXCEPT ![d] = @ + 1]
       \/ UNCHANGED <<handle, dev_ref>>
    /\ UNCHANGED <<node, children, serial_no, scribbled, entropy>>

(* chardev_vfs_release *)
DevRelease(h) ==
    /\ handle[h].kind \in CharDevs
    /\ dev_ref' = [dev_ref EXCEPT ![handle[h].kind] = IF @ > 0 THEN @ - 1 ELSE @]
    /\ handle' = [handle EXCEPT ![h] = NoHandle]
    /\ UNCHANGED <<node, children, serial_no, scribbled, entropy>>

Refilled == [index |-> 0, estimate |-> EntropyPool]

(* One turn of random_read_internal: a used up pool is filled again, then   *)
(* what is there is copied; with no estimate left random fills it again.    *)
ReadPool(e, n, blocking) ==
    LET start == IF e.index >= EntropyPool THEN Refilled ELSE e
        k == Min({n, EntropyPool - start.index})
        rest == [index |-> start.index + k, estimate |-> IF start.estimate > k THEN start.estimate - k ELSE 0]
    IN  [got |-> k, state |-> IF blocking /\ rest.estimate = 0 THEN Refilled ELSE rest]

(* random reads until it has all n; urandom stops when the estimate is 0.   *)
RandomRead(h, n) ==
    /\ handle[h].kind \in {"random", "urandom"}
    /\ LET one == ReadPool(entropy, n, handle[h].kind = "random")
           two == ReadPool(one.state, n - one.got, handle[h].kind = "random")
           stops == one.got = n \/ (handle[h].kind = "urandom" /\ one.state.estimate = 0)
       IN  entropy' = IF stops THEN one.state ELSE two.state
    /\ UNCHANGED <<TreeVars, dev_ref>>

(* urandom_write and the ioctl that adds entropy raise the estimate, up to  *)
(* the pool's size; the index stays.                                        *)
RandomWrite(h, n) ==
    /\ handle[h].kind = "urandom"
    /\ entropy' = [entropy EXCEPT !.estimate = Min({@ + n, EntropyPool})]
    /\ UNCHANGED <<TreeVars, dev_ref>>

(* chardev_init fills the pool and creates the devices, each referenced once. *)
DevInit == dev_ref = [d \in CharDevs |-> 1] /\ entropy = Refilled

(* Mounting tmpfs makes the root. *)
MemFsInit ==
    /\ node = [b \in TmpBlocks \cup {Root} |-> IF b = Root THEN [NoNode EXCEPT !.kind = "dir", !.name = "/"] ELSE NoNode]
    /\ children = [b \in TmpBlocks \cup {Root} |-> <<>>]
    /\ handle = [h \in Handles |-> NoHandle] /\ serial_no = 0
    /\ scribbled = FALSE /\ DevInit

TreeNext ==
    \/ \E h \in Handles, d \in TmpBlocks \cup {Root}, n \in Names :
          TmpLookup(h, d, n) \/ TmpCreate(h, d, n, "file") \/ TmpCreate(h, d, n, "dir")
    \/ \E h \in Handles, need \in 1 .. MaxSize : TmpWrite(h, need)
    \/ \E d \in TmpBlocks \cup {Root}, n \in Names : TmpUnlink(d, n)
    \/ \E h \in Handles : TmpRelease(h) \/ TmpWriteFreed(h)
DevNext ==
    \/ \E h \in Handles, d \in CharDevs : DevLookup(h, d)
    \/ \E h \in Handles : DevRelease(h)
    \/ \E h \in Handles, n \in 1 .. EntropyPool : RandomRead(h, n) \/ RandomWrite(h, n)
MemFsNext == TreeNext \/ DevNext
MemFsSpec == MemFsInit /\ [][MemFsNext]_MemFsVars
-----------------------------------------------------------------------------
MemFsTypeOK ==
    /\ \A b \in TmpBlocks : node[b].kind \in {"free", "file", "dir"}
    /\ entropy.index \in 0 .. EntropyPool /\ entropy.estimate \in 0 .. EntropyPool

(* The tree: every node in use except the root is exactly one child, of a   *)
(* directory in use, no directory has two children of one name, and a vnode *)
(* shows the file it was looked up for unless that file was unlinked since. *)
TmpTree ==
    /\ \A b \in TmpBlocks : node[b].kind # "free" <=>
          \E d \in LiveDirs : \E i \in 1 .. Len(children[d]) : children[d][i] = b
    /\ \A c, d \in LiveDirs : \A i \in 1 .. Len(children[c]), j \in 1 .. Len(children[d]) :
          node[children[c][i]].name = node[children[d][j]].name /\ c = d => i = j
    /\ \A c, d \in LiveDirs : c # d => Range(children[c]) \cap Range(children[d]) = {}
    /\ \A h \in Handles : handle[h].kind = "tmp" /\ ~handle[h].stale => node[handle[h].at].no = handle[h].no

Users(d) == {h \in Handles : handle[h].kind = d}

(* A device has one reference for its registration and one for every vnode  *)
(* that leads to it, whichever lookups failed for want of memory.           *)
DeviceRefs ==
    \A d \in CharDevs : dev_ref[d] = 1 + Cardinality(Users(d))

\* The tmpfs tree has no dangling name as long as nobody wrote through a vnode
\* whose node was freed, and device nodes count their references (tmpfs.c,
\* devfs.c, chardev_vfs.c).
MemFsSound == (~scribbled => TmpTree) /\ DeviceRefs

=============================================================================
