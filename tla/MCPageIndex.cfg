\* Pages of 22 bytes have two-byte bitmaps; 704 bytes make two index pages.
SPECIFICATION MCSpec
CONSTANTS
  DbSize = 704
  PageSize = 22
  MaxHoles = 2
INVARIANTS
  TypeOK
  HeldExactlyMarked
PROPERTIES
  RefinesAllocator
