------------------------------ MODULE MCSQApi -------------------------------
(* Small instances of SQApi. *)
EXTENDS SQApi

Table(slots, delegate) == [kind |-> "table", slots |-> slots, delegate |-> delegate]
MetaMethod(mm) == [x \in {mm} |-> Null]

\* Objects that may become each other's delegates, one with _cloned; a table and userdata with a
\* delegate that has one metamethod; native functions, called two deep; and one that
\* rearranges its stack and throws.
MCScenes ==
  {[uses |-> {"objects", "order"}, objs |-> 4, closures |-> 0, depth |-> 0, room |-> 1, steps |-> 6,
    heap |-> <<Table(<<>>, 0), Table(<<>>, 0), Table(MetaMethod("_cloned"), 0)>>]}
  \cup {[uses |-> {"slots", "order", "errors"}, objs |-> 3, closures |-> 0, depth |-> 0, room |-> 2, steps |-> 5,
          heap |-> <<Table(<<>>, 3), [kind |-> "userdata", slots |-> <<>>, delegate |-> 3], Table(MetaMethod(mm), 0)>>] :
            mm \in {"_newslot", "_delslot", "_get", "_set"}}
  \cup {[uses |-> {"functions"}, objs |-> 1, closures |-> 2, depth |-> 2, room |-> 4, steps |-> 6,
          heap |-> <<Table(<<>>, 0)>>],
         [uses |-> {"functions", "remove"}, objs |-> 1, closures |-> 2, depth |-> 1, room |-> 3, steps |-> 6,
          heap |-> <<Table(<<>>, 0)>>],
         [uses |-> {"functions", "order", "errors"}, objs |-> 1, closures |-> 1, depth |-> 1, room |-> 3, steps |-> 6,
          heap |-> <<Table(<<>>, 0)>>]}
=============================================================================
