CONSTANTS
  g1 = g1
  g2 = g2
  gc = gc
  a = a
  b = b
  c = c
  page1 = page1
  page2 = page2
  page3 = page3
  x = x
  y = y
  Zero = Zero
  Nobody = Nobody
  Free = Free
  Goroutines = {g1, g2}
  GC = gc
  Containers = {a, b}
  Pages = {page1, page2, page3}
  PageOf <- OwnPages
  Payloads = {x, y}
  MaxCalls = 2
SPECIFICATION Spec
INVARIANT CloneLeavesNothing
