\* Three usable buffer sizes, zero, one beyond the limit, and tjBufSize's error.
SPECIFICATION Spec
CONSTANTS
  Dimensions = {0, 1, 640, 16384, 16385}
  BufferSizes = {0, 4, 6, 7, 8, 20}
  MAX_JPEG_BUFFER_BYTES = 7
  ULONG_MAX = 20
INVARIANTS ResizeInPlace BuffersMatchCall
