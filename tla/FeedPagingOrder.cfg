\* Part of a page is not in the cache.
SPECIFICATION Spec
CONSTANTS
    Posts = {1, 2, 3}
    CreatedAt <- ThreePosts
    Milli = 2
    Limits <- OneAndTwo
    NoPost = NoPost
INVARIANTS PageInOrder
