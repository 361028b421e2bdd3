CONSTANTS
    blobA = blobA
    blobB = blobB
    r = r
    w = w
    Blobs = {blobA, blobB}
    Records = {r}
    Wants = {w}
    BlobKind = blobB
    Refs <- MCRefs
    Roots <- MCRoots
    Generations = 3
    Fanout = 1
    Uses <- MCRewriteUses
SPECIFICATION Spec
PROPERTY
    CloseIsBoundary
