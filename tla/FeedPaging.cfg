\* Four posts, two of them within a millisecond; any limit up to two.
SPECIFICATION Spec
CONSTANTS
    Posts = {1, 2, 3, 4}
    CreatedAt <- FourPosts
    Milli = 2
    Limits <- OneAndTwo
    NoPost = NoPost
INVARIANTS NothingSkipped EndedIsComplete CursorDescends
