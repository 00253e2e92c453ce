\* Two files, two exports, and every drawing of MCShapes.
SPECIFICATION Spec
CONSTANTS
  Files = {f1, f2}
  Shapes <- MCShapes
  MaxExports = 2
INVARIANTS
  ImagesIntact
  WatchesDirectory
  NoticedChangesFixed
PROPERTIES
  PromisedImagesFixed
