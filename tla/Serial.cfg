SPECIFICATION Spec
CONSTANTS
    b1 = b1
    b2 = b2
    c1 = c1
    i1 = i1
    i2 = i2
    x = x
    y = y
    r1 = r1
    r2 = r2
    r3 = r3
    None = None
    Containers = {c1}
    Blobs = {b1}
    Home <- OneBlob
    BlockIds = {i1}
    Bodies = {x, y}
    Size <- MCSize
    Requests = {r1, r2}
    Ops = {"create_container", "put_blob", "delete_blob", "delete_container", "put_block", "put_block_list"}
    BlockLists <- AllKinds
    Env = {"crash", "fault", "mismatch"}
SYMMETRY Symm
INVARIANTS Consistent StagedRowHasFile StagedRowHasContainer AssembledFromStaged
